---- MODULE Spec2Model ----
(***************************************************************************)
(* Model of ClaudeTerminalProvider (src/src/extension.ts, second revision, *)
(* lines 1526-3198): the session multiplexer (terminals map, counter, pty  *)
(* handles) and the shared output buffer with its debounce timer.          *)
(*                                                                         *)
(* Strings that the code takes apart (output chunks, buffered lines) are   *)
(* sequences of one-character strings.  Strings that the code only builds  *)
(* and compares (terminal ids, names, message types) are TLA+ strings.     *)
(*                                                                         *)
(* Variables named in the source are the provider's fields.  The other     *)
(* variables stand for the collaborators the provider talks to: procs for  *)
(* the node-pty handles, timers for the Node timer queue, uiMessages for   *)
(* the webview's inbox; chunkLog and passes are history variables that     *)
(* record the chunks the handlers were given and the passes that ran.      *)
(***************************************************************************)
EXTENDS Integers, Sequences, FiniteSets, TLC

VARIABLES
    view,                   \* _view is set
    terminals,              \* Map<string, Terminal>, as a function on its keys
    terminalCounter,
    terminalBuffer,         \* string[]
    menuDetectionTimeout,   \* 0 for undefined, else a timer handle
    procs,                  \* the pty handles spawned so far
    timers,                 \* the timers created by setTimeout so far
    uiMessages,             \* messages posted to the webview, in order
    chunkLog,               \* chunks appended since the buffer was last reset
    passes,                 \* detection passes run so far
    deactivated,            \* deactivate() has been called
    posted,                 \* messages the settings form has posted to the
                            \* host, each with what had been entered
    notifications,          \* messages the host has shown with
                            \* vscode.window.show...Message, in order
    webview                 \* the state of the webview script: its terminals
                            \* map, the tab and pane elements of the document,
                            \* activeTerminalId, and the number of messages of
                            \* the provider it has received

vars == <<view, terminals, terminalCounter, terminalBuffer,
          menuDetectionTimeout, procs, timers, uiMessages, chunkLog,
          passes, deactivated, posted, notifications, webview>>

----------------------------------------------------------------------------
(* Bounds of the model *)

MaxTerminals == 2       \* createNewTerminal runs at most this often
MaxChunks == 2          \* output chunks handled in one run
MaxCalls == 1           \* write and resize calls that reach a handle in one run
BufMaxChunks == 3       \* output chunks handled in one run of BufSpec
OutMaxChunks == 3       \* output chunks handled in one run of OutSpec
DetMaxChunks == 3       \* output chunks handled in one run of DetSpec
RowMaxChunks == 3       \* output chunks handled in one run of RowSpec
GateMaxChunks == 3      \* output chunks handled in one run of GateSpec
TabMaxChunks == 1       \* output chunks handled in one run of TabSpec
SetMaxChunks == 1       \* output chunks handled in one run of SetSpec
MaxSaves == 1           \* clicks on the save button of the settings form in one run

(* Program constants *)

maxBufferLines == 50
InitialCounter == 1

LF == "\n"
CR == "\r"

----------------------------------------------------------------------------
(* Strings *)

DigitChars == <<"0", "1", "2", "3", "4", "5", "6", "7", "8", "9">>

\* Number-to-string conversion of a template literal `${n}`.
RECURSIVE Decimal(_)
Decimal(n) ==
    IF n < 10 THEN DigitChars[n + 1]
    ELSE Decimal(n \div 10) \o DigitChars[(n % 10) + 1]

TerminalId(n) == "terminal-" \o Decimal(n)
TerminalName(n) == "CC:" \o Decimal(n)

\* Every id a webview message may carry: the ids the counter can produce
\* within the bounds, and one more that is never created.
AllIds == {TerminalId(n) : n \in InitialCounter..(InitialCounter + MaxTerminals)}

\* Array.prototype.slice(-n)
SliceLast(s, n) ==
    IF Len(s) <= n THEN s ELSE SubSeq(s, Len(s) - n + 1, Len(s))

\* String.prototype.split(/\r?\n/): the pieces between line terminators; a
\* carriage return directly before a line feed belongs to the terminator.
StripCR(line) ==
    IF Len(line) > 0 /\ line[Len(line)] = CR
    THEN SubSeq(line, 1, Len(line) - 1)
    ELSE line

SplitLines(data) ==
    LET IsLF(i) == data[i] = LF
        \* the positions of the line feeds, in order
        lfs == SelectSeq([i \in 1..Len(data) |-> i], IsLF)
        n == Len(lfs)
        First(k) == IF k = 1 THEN 1 ELSE lfs[k - 1] + 1
        Piece(k) ==
            IF k <= n
            THEN StripCR(SubSeq(data, First(k), lfs[k] - 1))
            ELSE SubSeq(data, First(k), Len(data))
    IN  [k \in 1..(n + 1) |-> Piece(k)]

\* Array.prototype.join('\n')
RECURSIVE Join(_)
Join(lines) ==
    IF Len(lines) = 0 THEN <<>>
    ELSE IF Len(lines) = 1 THEN lines[1]
    ELSE LET half == Len(lines) \div 2
         IN  Join(SubSeq(lines, 1, half)) \o <<LF>>
                 \o Join(SubSeq(lines, half + 1, Len(lines)))

----------------------------------------------------------------------------
(* Inputs *)

\* A chunk of 51 terminated lines: more lines than the buffer keeps.
BigChunk ==
    [i \in 1..(2 * (maxBufferLines + 1)) |->
        IF i % 2 = 0 THEN LF
        ELSE IF i < maxBufferLines THEN "a" ELSE "b"]

Chunks == { <<"a">> }
BufChunks == { <<"a">>, <<"b", LF>>, <<"a", CR, LF, "b">>, BigChunk }
OutChunks == { <<"a">>, <<"b", LF>> }

InputData == { "y", "n" }
Sizes == { <<80, 24>>, <<120, 40>> }
SpawnOutcomes == { "spawned", "throws" }

----------------------------------------------------------------------------
(* Collaborators: Map, node-pty handles, Node timers *)

\* Map.prototype.set
MapSet(m, k, v) == [x \in (DOMAIN m) \cup {k} |-> IF x = k THEN v ELSE m[x]]

\* Map.prototype.delete
MapDelete(m, k) == [x \in (DOMAIN m) \ {k} |-> m[x]]

\* pty.spawn('claude', [], {cols: 80, rows: 24, ...}) when it returns a handle.
\* terminalId is the value the onData and onExit closures capture.
Spawn(ps, terminalId) ==
    Append(ps, [terminalId |-> terminalId, status |-> "running", kills |-> 0,
                size |-> <<80, 24>>, calls |-> <<>>, emitted |-> <<>>])

\* The process behind handle h emits a chunk: the handle fires its data event.
Emit(ps, h, data) == [ps EXCEPT ![h].emitted = Append(@, data)]

\* IPty.kill(): the signal is sent; the exit event comes later.
Kill(ps, h) ==
    [ps EXCEPT ![h].kills = @ + 1,
               ![h].status = IF @ = "running" THEN "killed" ELSE @]

\* IPty.write(data)
Write(ps, h, data) ==
    [ps EXCEPT ![h].calls = Append(@, [op |-> "write", arg |-> data])]

\* IPty.resize(cols, rows)
Resize(ps, h, size) ==
    [ps EXCEPT ![h].size = size,
               ![h].calls = Append(@, [op |-> "resize", arg |-> size])]

\* clearTimeout(t): a pending timer is cancelled, any other handle is ignored.
ClearTimeout(tm, t) ==
    IF t \in DOMAIN tm /\ tm[t].state = "pending"
    THEN [tm EXCEPT ![t].state = "cleared"]
    ELSE tm

\* setTimeout(callback, 500): the new handle is Len(tm) + 1.  The timer keeps
\* a note of the call that made it: owner, the session whose output it was;
\* within, whether an earlier timer was still pending (the chunk came within
\* the quiet interval of the chunk before); buffer, the buffer at the call.
SetTimeout(tm, owner, within, buffer) ==
    Append(tm, [state |-> "pending", owner |-> owner, within |-> within,
                buffer |-> buffer])

RECURSIVE SumCalls(_, _)
SumCalls(ps, i) == IF i = 0 THEN 0 ELSE Len(ps[i].calls) + SumCalls(ps, i - 1)

\* The write and resize calls that have reached any handle.
TotalCalls == SumCalls(procs, Len(procs))

PendingTimers == {t \in DOMAIN timers : timers[t].state = "pending"}

Post(msgs, m) == Append(msgs, m)

----------------------------------------------------------------------------
(* Characters *)

\* A text is a sequence of characters; a character is a string: an ASCII
\* character is itself, any other is written by its code point.  The regular
\* expressions of the detector name box-drawing characters and the selection
\* arrow; in src/src/extension.ts their UTF-8 bytes show as Windows-1252 text
\* (E2 94 8C, U+250C, as "a-circumflex, right quote, OE").
ESC == "U+001B"
BoxDR == "U+250C"       \* light down and right (top left corner)
BoxDL == "U+2510"       \* light down and left (top right corner)
BoxUR == "U+2514"       \* light up and right (bottom left corner)
BoxUL == "U+2518"       \* light up and left (bottom right corner)
BoxH == "U+2500"        \* light horizontal
BoxV == "U+2502"        \* light vertical
BoxDH == "U+252C"       \* light down and horizontal
DblDR == "U+2554"       \* double down and right
DblDL == "U+2557"       \* double down and left
DblUR == "U+255A"       \* double up and right
DblUL == "U+255D"       \* double up and left
DblH == "U+2550"        \* double horizontal
DblV == "U+2551"        \* double vertical
DblDH == "U+2566"       \* double down and horizontal
ArcDR == "U+256D"       \* light arc down and right
ArcDL == "U+256E"       \* light arc down and left
ArcUL == "U+256F"       \* light arc up and left
ArcUR == "U+2570"       \* light arc up and right
Arrow == "U+276F"       \* heavy right-pointing angle quotation mark ornament

LowerChars == <<"a", "b", "c", "d", "e", "f", "g", "h", "i", "j", "k", "l", "m",
                "n", "o", "p", "q", "r", "s", "t", "u", "v", "w", "x", "y", "z">>
UpperChars == <<"A", "B", "C", "D", "E", "F", "G", "H", "I", "J", "K", "L", "M",
                "N", "O", "P", "Q", "R", "S", "T", "U", "V", "W", "X", "Y", "Z">>

Range(s) == {s[i] : i \in DOMAIN s}

Digits == Range(DigitChars)
Letters == Range(LowerChars) \cup Range(UpperChars)

\* The characters \s matches and the line terminators, among those of the
\* model's alphabet.
WhiteSpace == {" ", "\t", "\f", LF, CR}
LineTerminators == {LF, CR}

\* String.prototype.toLowerCase, one character
ToLowerCase(c) ==
    IF \E i \in DOMAIN UpperChars : UpperChars[i] = c
    THEN LowerChars[CHOOSE i \in DOMAIN UpperChars : UpperChars[i] = c]
    ELSE c

\* The two cases of a character, for a pattern with the i flag.
BothCases(c) ==
    {c} \cup {LowerChars[i] : i \in {j \in DOMAIN UpperChars : UpperChars[j] = c}}
        \cup {UpperChars[i] : i \in {j \in DOMAIN LowerChars : LowerChars[j] = c}}

\* String.prototype.trim
Trim(text) ==
    LET keep == {i \in DOMAIN text : text[i] \notin WhiteSpace}
    IN  IF keep = {} THEN <<>>
        ELSE SubSeq(text, CHOOSE i \in keep : \A j \in keep : i <= j,
                          CHOOSE i \in keep : \A j \in keep : i >= j)

\* The digits text starts with.
LeadingDigits(text) ==
    LET others == {i \in DOMAIN text : text[i] \notin Digits}
        n == IF others = {} THEN Len(text)
             ELSE (CHOOSE i \in others : \A j \in others : i <= j) - 1
    IN  SubSeq(text, 1, n)

\* String.prototype.split(c) for a one-character separator
Split(text, c) ==
    LET IsSep(i) == text[i] = c
        seps == SelectSeq([i \in 1..Len(text) |-> i], IsSep)
        n == Len(seps)
        First(k) == IF k = 1 THEN 1 ELSE seps[k - 1] + 1
        Last(k) == IF k <= n THEN seps[k] - 1 ELSE Len(text)
    IN  [k \in 1..(n + 1) |-> SubSeq(text, First(k), Last(k))]

----------------------------------------------------------------------------
(* Regular expressions, matched by backtracking as the JavaScript engine
   does.  A pattern is the sequence of its items; the patterns of the
   detector repeat and capture single character classes only.  A match state
   is the position of the next character and the captures made so far; the
   Run operators give the states an item can end in from a state, in the
   order backtracking tries them. *)

Chr(set) == [k |-> "chr", set |-> set]              \* [...] or a literal
NotChr(set) == [k |-> "not", set |-> set]           \* [^...] or .
Rep(c, min) == [k |-> "rep", c |-> c, min |-> min]  \* c{min,}, greedy
Lazy(c, min) == [k |-> "lazy", c |-> c, min |-> min]    \* c{min,}?
Alt(words) == [k |-> "alt", words |-> words]        \* (word1|word2|...)
Grp(n, item) == [k |-> "grp", n |-> n, item |-> item]   \* capture group n
Bol == [k |-> "bol"]                                \* ^
Eol == [k |-> "eol"]                                \* $

Dot == NotChr(LineTerminators)      \* . without the s flag
DotAll == NotChr({})                \* . with the s flag
Star(c) == Rep(c, 0)
Plus(c) == Rep(c, 1)

\* A literal word of a pattern with the i flag: one item per character.
WordI(word) == [i \in DOMAIN word |-> Chr(BothCases(word[i]))]

\* The character class c matches the character ch.
InClass(c, ch) == IF c.k = "chr" THEN ch \in c.set ELSE ch \notin c.set

\* The sequences of seqs, one after the other.
RECURSIVE Flatten(_)
Flatten(seqs) ==
    IF Len(seqs) = 0 THEN <<>>
    ELSE IF Len(seqs) = 1 THEN seqs[1]
    ELSE LET half == Len(seqs) \div 2
         IN  Flatten(SubSeq(seqs, 1, half))
                \o Flatten(SubSeq(seqs, half + 1, Len(seqs)))

\* The first position from p on whose character the class c does not match;
\* the position after the text if there is none.
Longest(c, text, p) ==
    LET stops == {i \in p..Len(text) : ~InClass(c, text[i])}
    IN  IF stops = {} THEN Len(text) + 1
        ELSE CHOOSE i \in stops : \A j \in stops : i <= j

\* The states of a repetition that may end anywhere from shortest to longest:
\* the greedy form tries the longest repetition first and gives characters
\* back one at a time, the lazy form starts with the shortest.
Backtrack(item, st, shortest, longest) ==
    [j \in 1..(IF longest >= shortest THEN longest - shortest + 1 ELSE 0) |->
        [st EXCEPT !.pos = IF item.k = "rep" THEN longest - j + 1
                            ELSE shortest + j - 1]]

\* A repetition of a character class from st: the class matches a run of
\* characters.
RunRep(item, text, st) ==
    Backtrack(item, st, st.pos + item.min, Longest(item.c, text, st.pos))

\* A word of character classes from st.
RunWord(word, text, st) ==
    IF /\ st.pos + Len(word) - 1 <= Len(text)
       /\ \A i \in DOMAIN word : InClass(word[i], text[st.pos + i - 1])
    THEN <<[st EXCEPT !.pos = @ + Len(word)]>> ELSE <<>>

\* An item without a group from state st of text; m is the m flag.
RunPlain(item, text, m, st) ==
    CASE item.k \in {"chr", "not"} -> RunWord(<<item>>, text, st)
      [] item.k \in {"rep", "lazy"} -> RunRep(item, text, st)
      [] item.k = "alt" ->
            Flatten([i \in DOMAIN item.words |->
                        RunWord(item.words[i], text, st)])
      [] item.k = "bol" ->
            IF st.pos = 1 \/ (m /\ text[st.pos - 1] \in LineTerminators)
            THEN <<st>> ELSE <<>>
      [] item.k = "eol" ->
            IF \/ st.pos = Len(text) + 1
               \/ (m /\ text[st.pos] \in LineTerminators)
            THEN <<st>> ELSE <<>>

\* The states ends reached from st, with what was matched as capture n.
Capture(n, text, st, ends) ==
    [i \in DOMAIN ends |->
        [ends[i] EXCEPT !.caps =
            MapSet(@, n, SubSeq(text, st.pos, ends[i].pos - 1))]]

\* An item from state st: a group records what its item matched.
RunItem(item, text, m, st) ==
    IF item.k = "grp"
    THEN Capture(item.n, text, st, RunPlain(item.item, text, m, st))
    ELSE RunPlain(item, text, m, st)

\* The items of re from the i-th on, from the states sts in their order.
RECURSIVE Run(_, _, _, _, _)
Run(re, i, text, m, sts) ==
    IF i > Len(re) \/ Len(sts) = 0 THEN sts
    ELSE Run(re, i + 1, text, m,
             Flatten([j \in DOMAIN sts |-> RunItem(re[i], text, m, sts[j])]))

\* The match of re that starts at position p, or <<>>.
MatchAt(re, text, m, p) == Run(re, 1, text, m, <<[pos |-> p, caps |-> <<>>]>>)

\* The match of re from each position of text.
Matches(re, text, m) ==
    [p \in 1..(Len(text) + 1) |-> MatchAt(re, text, m, p)]

\* RegExp.prototype.test
Test(re, text, m) ==
    \E p \in 1..(Len(text) + 1) : MatchAt(re, text, m, p) # <<>>

\* The leftmost of the matches ms, as <<state>>; <<>> if there is none.
Leftmost(ms) ==
    LET starts == {p \in DOMAIN ms : ms[p] # <<>>}
    IN  IF starts = {} THEN <<>>
        ELSE <<Head(ms[CHOOSE q \in starts : \A r \in starts : q <= r])>>

\* String.prototype.match without the g flag: the leftmost match, as the
\* captures and the end of the match; <<>> for null.
Match(re, text, m) == Leftmost(Matches(re, text, m))

\* The matches a g-flag scan of the matches ms finds from position from on,
\* left to right, each as <<start, position after the match>>: the scan goes
\* on after each match it finds.  No pattern here matches the empty text.
RECURSIVE ScanFrom(_, _)
ScanFrom(ms, from) ==
    IF from > Len(ms) THEN <<>>
    ELSE IF ms[from] = <<>> THEN ScanFrom(ms, from + 1)
    ELSE <<<<from, ms[from][1].pos>>>> \o ScanFrom(ms, ms[from][1].pos)

\* The matches of a g-flag scan of text from position from on.
Scan(re, text, m, from) == ScanFrom(Matches(re, text, m), from)

\* text without the parts found, each <<start, position after the part>>.
Without(text, found) ==
    LET Kept(i) == \A j \in DOMAIN found : i < found[j][1] \/ i >= found[j][2]
        kept == SelectSeq([i \in 1..Len(text) |-> i], Kept)
    IN  [i \in 1..Len(kept) |-> text[kept[i]]]

\* String.prototype.replace(re, '') with the g flag
Remove(re, text) == Without(text, Scan(re, text, FALSE, 1))

----------------------------------------------------------------------------
(* The menu detector *)

\* /\x1b\[[0-9;]*[mA-Za-z]/
AnsiEscape ==
    <<Chr({ESC}), Chr({"["}), Star(Chr(Digits \cup {";"})),
      Chr({"m"} \cup Letters)>>

\* text.replace(/\x1b\[[0-9;]*[mA-Za-z]/g, '')
StripAnsi(text) == Remove(AnsiEscape, text)

\* completeBoxPatterns, all with the s flag
completeBoxPatterns ==
    << <<Chr({BoxDR}), Star(Chr({BoxH, BoxDH})), Chr({BoxDL}),
         Star(DotAll), Chr({BoxUL})>>,
       <<Chr({DblDR}), Star(Chr({DblH, DblDH})), Chr({DblDL}),
         Star(DotAll), Chr({DblUL})>>,
       <<Chr({"+"}), Star(Chr({"-", "+"})), Chr({"+"}),
         Star(DotAll), Chr({"+"})>> >>

\* The character class of the boxChars match.
BoxChars ==
    {BoxDR, BoxDL, BoxUR, BoxUL, BoxH, BoxV,
     DblDR, DblDL, DblUR, DblUL, DblH, DblV, "+", "|"}

\* _hasBoxStructure(text) asking for five box characters.
_hasBoxStructure_FiveChars(text) ==
    LET cleanText == StripAnsi(text)
        IsBoxChar(c) == c \in BoxChars
        boxChars == SelectSeq(cleanText, IsBoxChar)
    IN  \/ \E i \in DOMAIN completeBoxPatterns :
                Test(completeBoxPatterns[i], cleanText, FALSE)
        \/ Len(boxChars) >= 5

\* _hasBoxStructure(text)
_hasBoxStructure(text) ==
    LET cleanText == StripAnsi(text)
        IsBoxChar(c) == c \in BoxChars
        boxChars == SelectSeq(cleanText, IsBoxChar)
    IN  \/ \E i \in DOMAIN completeBoxPatterns :
                Test(completeBoxPatterns[i], cleanText, FALSE)
        \/ Len(boxChars) >= 4

\* /^\s*\d+\.\s+.{3,}/m, and with its groups /^\s*(\d+)\.\s+(.{3,})/gm
numberedMenuPattern ==
    <<Bol, Star(Chr(WhiteSpace)), Grp(1, Plus(Chr(Digits))), Chr({"."}),
      Plus(Chr(WhiteSpace)), Grp(2, Rep(Dot, 3))>>

\* claudePrompts, all with the i flag, the last with the m flag too
claudePrompts ==
    << WordI(<<"d", "o">>) \o <<Plus(Chr(WhiteSpace))>>
            \o WordI(<<"y", "o", "u">>) \o <<Plus(Chr(WhiteSpace))>>
            \o WordI(<<"w", "a", "n", "t">>) \o <<Plus(Chr(WhiteSpace))>>
            \o WordI(<<"t", "o">>),
       WordI(<<"s", "h", "o", "u", "l", "d">>) \o <<Plus(Chr(WhiteSpace))>>
            \o WordI(<<"i">>) \o <<Plus(Chr(WhiteSpace))>>
            \o WordI(<<"p", "r", "o", "c", "e", "e", "d">>),
       WordI(<<"w", "o", "u", "l", "d">>) \o <<Plus(Chr(WhiteSpace))>>
            \o WordI(<<"y", "o", "u">>) \o <<Plus(Chr(WhiteSpace))>>
            \o WordI(<<"l", "i", "k", "e">>),
       WordI(<<"c", "r", "e", "a", "t", "e">>) \o <<Star(Dot)>>
            \o WordI(<<"f", "i", "l", "e">>),
       <<Bol, Star(Chr(WhiteSpace)), Plus(Chr(Digits)), Chr({"."}),
         Plus(Chr(WhiteSpace)),
         Alt(<<WordI(<<"y", "e", "s">>), WordI(<<"n", "o">>)>>)>> >>

\* _hasInteractiveElements(text)
_hasInteractiveElements(text) ==
    LET cleanText == StripAnsi(text)
        numberedOptions == Scan(numberedMenuPattern, cleanText, TRUE, 1)
    IN  \/ /\ Test(numberedMenuPattern, cleanText, TRUE)
           /\ Len(numberedOptions) >= 2
        \/ \E i \in DOMAIN claudePrompts :
                Test(claudePrompts[i], cleanText, TRUE)

\* The decoration both row patterns allow before the row: [│\s]*[❯\s]*\s*
Decoration ==
    <<Star(Chr({BoxV} \cup WhiteSpace)), Star(Chr({Arrow} \cup WhiteSpace)),
      Star(Chr(WhiteSpace))>>

\* hasMenuNumber: /[│\s]*[❯\s]*\s*\d+\.\s+/ or /^\s*\d+\.\s+/
hasMenuNumber(line) ==
    \/ Test(Decoration \o <<Plus(Chr(Digits)), Chr({"."}),
                            Plus(Chr(WhiteSpace))>>,
            line, FALSE)
    \/ Test(<<Bol, Star(Chr(WhiteSpace)), Plus(Chr(Digits)), Chr({"."}),
              Plus(Chr(WhiteSpace))>>,
            line, FALSE)

\* hasLetterOption: /[│\s]*[❯\s]*\s*\([a-z]\)\s+/i or /^\s*\([a-z]\)\s+/i
hasLetterOption(line) ==
    \/ Test(Decoration \o <<Chr({"("}), Chr(Letters), Chr({")"}),
                            Plus(Chr(WhiteSpace))>>,
            line, FALSE)
    \/ Test(<<Bol, Star(Chr(WhiteSpace)), Chr({"("}), Chr(Letters),
              Chr({")"}), Plus(Chr(WhiteSpace))>>,
            line, FALSE)

\* _parseClaudeMenuLine(line) with the letter taken as key the way it is typed.
_parseClaudeMenuLine_KeyAsTyped(line) ==
    LET cleanLine ==
            Trim(Remove(<<Chr({Arrow})>>,
                        Remove(<<Chr({BoxV, ArcDR, ArcDL, ArcUL, ArcUR, BoxH})>>,
                               line)))
        \* /^\s*(\d+)\.\s*(.+?)$/
        numbered ==
            Match(<<Bol, Star(Chr(WhiteSpace)), Grp(1, Plus(Chr(Digits))),
                    Chr({"."}), Star(Chr(WhiteSpace)), Grp(2, Lazy(Dot, 1)),
                    Eol>>,
                  cleanLine, FALSE)
        \* /^\s*\(([a-z])\)\s*(.+?)$/i
        lettered ==
            Match(<<Bol, Star(Chr(WhiteSpace)), Chr({"("}),
                    Grp(1, Chr(Letters)), Chr({")"}), Star(Chr(WhiteSpace)),
                    Grp(2, Lazy(Dot, 1)), Eol>>,
                  cleanLine, FALSE)
    IN  IF numbered # <<>>
        THEN <<[key |-> numbered[1].caps[1],
                label |-> Trim(numbered[1].caps[2]),
                description |-> Trim(numbered[1].caps[2])]>>
        ELSE IF lettered # <<>>
        THEN <<[key |-> lettered[1].caps[1],
                label |-> Trim(lettered[1].caps[2]),
                description |-> Trim(lettered[1].caps[2])]>>
        ELSE <<>>

\* _parseClaudeMenuLine(line): <<option>>, or <<>> for null
_parseClaudeMenuLine(line) ==
    LET cleanLine ==
            Trim(Remove(<<Chr({Arrow})>>,
                        Remove(<<Chr({BoxV, ArcDR, ArcDL, ArcUL, ArcUR, BoxH})>>,
                               line)))
        \* /^\s*(\d+)\.\s*(.+?)$/
        numbered ==
            Match(<<Bol, Star(Chr(WhiteSpace)), Grp(1, Plus(Chr(Digits))),
                    Chr({"."}), Star(Chr(WhiteSpace)), Grp(2, Lazy(Dot, 1)),
                    Eol>>,
                  cleanLine, FALSE)
        \* /^\s*\(([a-z])\)\s*(.+?)$/i
        lettered ==
            Match(<<Bol, Star(Chr(WhiteSpace)), Chr({"("}),
                    Grp(1, Chr(Letters)), Chr({")"}), Star(Chr(WhiteSpace)),
                    Grp(2, Lazy(Dot, 1)), Eol>>,
                  cleanLine, FALSE)
    IN  IF numbered # <<>>
        THEN <<[key |-> numbered[1].caps[1],
                label |-> Trim(numbered[1].caps[2]),
                description |-> Trim(numbered[1].caps[2])]>>
        ELSE IF lettered # <<>>
        THEN <<[key |-> <<ToLowerCase(lettered[1].caps[1][1])>>,
                label |-> Trim(lettered[1].caps[2]),
                description |-> Trim(lettered[1].caps[2])]>>
        ELSE <<>>

\* _parseMenuOptions(text) pushing a row that could not be parsed as well, its
\* line as label.
_parseMenuOptions_KeepUnparsed(text) ==
    LET cleanText == StripAnsi(text)
        split == Split(cleanText, LF)
        trimmed == [i \in DOMAIN split |-> Trim(split[i])]
        NonEmpty(line) == Len(line) > 0
        lines == SelectSeq(trimmed, NonEmpty)
        EndsWithQuestion(line) ==
            LET t == Trim(line) IN Len(t) > 0 /\ t[Len(t)] = "?"
        Pushed(line) ==
            /\ ~EndsWithQuestion(line)
            /\ hasMenuNumber(line) \/ hasLetterOption(line)
        kept == SelectSeq(lines, Pushed)
        Option(line) ==
            IF _parseClaudeMenuLine(line) # <<>>
            THEN _parseClaudeMenuLine(line)[1]
            ELSE [key |-> <<>>, label |-> line, description |-> line]
    IN  [i \in DOMAIN kept |-> Option(kept[i])]

\* _parseMenuOptions(text)
_parseMenuOptions(text) ==
    LET cleanText == StripAnsi(text)
        split == Split(cleanText, LF)
        trimmed == [i \in DOMAIN split |-> Trim(split[i])]
        NonEmpty(line) == Len(line) > 0
        lines == SelectSeq(trimmed, NonEmpty)
        EndsWithQuestion(line) ==
            LET t == Trim(line) IN Len(t) > 0 /\ t[Len(t)] = "?"
        Pushed(line) ==
            /\ ~EndsWithQuestion(line)
            /\ hasMenuNumber(line) \/ hasLetterOption(line)
            /\ _parseClaudeMenuLine(line) # <<>>
        kept == SelectSeq(lines, Pushed)
    IN  [i \in DOMAIN kept |-> _parseClaudeMenuLine(kept[i])[1]]

\* The actions of _detectInteractiveMenu with the two checks joined by ||.
_detectInteractiveMenu_EitherCheck(fullBuffer) ==
    LET hasBox == _hasBoxStructure(fullBuffer)
        hasInteractive == _hasInteractiveElements(fullBuffer)
    IN  IF hasBox \/ hasInteractive
        THEN _parseMenuOptions(fullBuffer)
        ELSE <<>>

\* The actions _detectInteractiveMenu() finds in fullBuffer: the parsed
\* options if both checks pass, none otherwise.
_detectInteractiveMenu(fullBuffer) ==
    LET hasBox == _hasBoxStructure(fullBuffer)
        hasInteractive == _hasInteractiveElements(fullBuffer)
    IN  IF hasBox /\ hasInteractive
        THEN _parseMenuOptions(fullBuffer)
        ELSE <<>>

\* Output of a session that shows menus: an empty frame, a numbered list, a
\* whole framed menu with its cursor, a styled row behind a bar, a question.
DetChunks ==
    { <<BoxDR, BoxH, BoxDL, LF, BoxUR, BoxH, BoxUL>>,
      <<"1", ".", " ", "Y", "e", "s", LF, "2", ".", " ", "N", "o">>,
      <<BoxDR, BoxH, BoxDL, LF,
        BoxV, Arrow, " ", "1", ".", " ", "Y", "e", "s", BoxV, LF,
        BoxV, " ", " ", "2", ".", " ", "N", "o", BoxV, LF,
        BoxUR, BoxH, BoxUL>>,
      <<"|", ESC, "[", "1", "m", " ", "3", ".", " ", "R", "u", "n",
        ESC, "[", "0", "m">>,
      <<"W", "o", "u", "l", "d", " ", "y", "o", "u", " ", "l", "i", "k", "e", "?">> }

\* Output with option rows: the framed list of two bare rows; two lettered
\* rows and a line with a number in its middle; a bare and a framed row that
\* both end in a question mark; an empty line.
RowChunks ==
    { <<BoxDR, BoxH, BoxDL, LF, "1", ".", " ", "Y", "e", "s", LF, "2", ".",
        " ", "N", "o", LF, BoxUR, BoxH, BoxUL>>,
      <<"(", "A", ")", " ", "K", "e", "e", "p", LF, "(", "b", ")", " ", "D",
        "r", "o", "p", LF, "x", " ", "1", ".", " ", "y">>,
      <<"1", ".", " ", "G", "o", "?", LF, BoxV, "3", ".", " ", "G", "o",
        "?", BoxV>>,
      <<CR, LF>> }

\* Output that the two checks look at: a numbered line that starts with the
\* letters of "no", a plain numbered line, an interactive phrase, a row
\* between two bars, a single bar, a double-line frame, the rule of a table.
GateChunks ==
    { <<"1", ".", " ", "N", "o", "t", "e", "s">>,
      <<"1", ".", " ", "I", "t", "e", "m">>,
      <<"S", "h", "o", "u", "l", "d", " ", "I", " ", "p", "r", "o", "c",
        "e", "e", "d">>,
      <<BoxV, "a", BoxV>>,
      <<"|">>,
      <<DblDR, DblH, DblDL, LF, DblUR, DblH, DblUL>>,
      <<"+", "-", "+", "-", "+">> }

----------------------------------------------------------------------------
(* ClaudeTerminalProvider *)

Init ==
    /\ view = FALSE
    /\ terminals = <<>>
    /\ terminalCounter = InitialCounter
    /\ terminalBuffer = <<>>
    /\ menuDetectionTimeout = 0
    /\ procs = <<>>
    /\ timers = <<>>
    /\ uiMessages = <<>>
    /\ chunkLog = <<>>
    /\ passes = <<>>
    /\ deactivated = FALSE
    /\ posted = <<>>
    /\ notifications = <<>>
    /\ webview = [terminals |-> {}, tabs |-> <<>>, panes |-> <<>>,
                  activeTerminalId |-> "null", received |-> 0]

\* createNewTerminal() with the id and the name taken from the number of open
\* terminals instead of the counter.
createNewTerminal_FromSize(v, outcome) ==
    IF ~v
    THEN UNCHANGED <<terminals, terminalCounter, procs, uiMessages>>
    ELSE LET n == Cardinality(DOMAIN terminals) + 1
             terminalId == TerminalId(n)
             terminalName == TerminalName(n)
             terminal == [id |-> terminalId, name |-> terminalName,
                          ptyProcess |-> Len(procs) + 1]
         IN  /\ terminalCounter' = terminalCounter + 1
             /\ IF outcome = "throws"
                THEN UNCHANGED <<terminals, procs, uiMessages>>
                ELSE /\ procs' = Spawn(procs, terminalId)
                     /\ terminals' = MapSet(terminals, terminalId, terminal)
                     /\ uiMessages' =
                            Post(uiMessages, [type |-> "terminalCreated",
                                              terminalId |-> terminalId,
                                              name |-> terminalName])

\* createNewTerminal() building the id from the counter without advancing it.
createNewTerminal_NoIncrement(v, outcome) ==
    IF ~v
    THEN UNCHANGED <<terminals, terminalCounter, procs, uiMessages>>
    ELSE LET terminalId == TerminalId(terminalCounter)
             terminalName == TerminalName(terminalCounter)
             terminal == [id |-> terminalId, name |-> terminalName,
                          ptyProcess |-> Len(procs) + 1]
         IN  /\ terminalCounter' = terminalCounter
             /\ IF outcome = "throws"
                THEN UNCHANGED <<terminals, procs, uiMessages>>
                ELSE /\ procs' = Spawn(procs, terminalId)
                     /\ terminals' = MapSet(terminals, terminalId, terminal)
                     /\ uiMessages' =
                            Post(uiMessages, [type |-> "terminalCreated",
                                              terminalId |-> terminalId,
                                              name |-> terminalName])

\* createNewTerminal() giving every terminal the handle of the first process
\* it spawned.
createNewTerminal_SharedHandle(v, outcome) ==
    IF ~v
    THEN UNCHANGED <<terminals, terminalCounter, procs, uiMessages>>
    ELSE LET terminalId == TerminalId(terminalCounter)
             terminalName == TerminalName((terminalCounter + 1) - 1)
             terminal == [id |-> terminalId, name |-> terminalName,
                          ptyProcess |-> 1]
         IN  /\ terminalCounter' = terminalCounter + 1
             /\ IF outcome = "throws"
                THEN UNCHANGED <<terminals, procs, uiMessages>>
                ELSE /\ procs' = Spawn(procs, terminalId)
                     /\ terminals' = MapSet(terminals, terminalId, terminal)
                     /\ uiMessages' =
                            Post(uiMessages, [type |-> "terminalCreated",
                                              terminalId |-> terminalId,
                                              name |-> terminalName])

\* createNewTerminal() without the postMessage at its end.
createNewTerminal_NotAnnounced(v, outcome) ==
    IF ~v
    THEN UNCHANGED <<terminals, terminalCounter, procs, uiMessages>>
    ELSE LET terminalId == TerminalId(terminalCounter)
             terminalName == TerminalName((terminalCounter + 1) - 1)
             terminal == [id |-> terminalId, name |-> terminalName,
                          ptyProcess |-> Len(procs) + 1]
         IN  /\ terminalCounter' = terminalCounter + 1
             /\ IF outcome = "throws"
                THEN UNCHANGED <<terminals, procs, uiMessages>>
                ELSE /\ procs' = Spawn(procs, terminalId)
                     /\ terminals' = MapSet(terminals, terminalId, terminal)
                     /\ UNCHANGED uiMessages

\* createNewTerminal(), called with _view = v; outcome is what pty.spawn does.
createNewTerminal(v, outcome) ==
    IF ~v
    THEN UNCHANGED <<terminals, terminalCounter, procs, uiMessages>>
    ELSE LET terminalId == TerminalId(terminalCounter)
             terminalName == TerminalName((terminalCounter + 1) - 1)
             terminal == [id |-> terminalId, name |-> terminalName,
                          ptyProcess |-> Len(procs) + 1]
         IN  /\ terminalCounter' = terminalCounter + 1
             /\ IF outcome = "throws"
                THEN UNCHANGED <<terminals, procs, uiMessages>>
                ELSE /\ procs' = Spawn(procs, terminalId)
                     /\ terminals' = MapSet(terminals, terminalId, terminal)
                     /\ uiMessages' =
                            Post(uiMessages, [type |-> "terminalCreated",
                                              terminalId |-> terminalId,
                                              name |-> terminalName])

\* The handle spawned for terminalId, open or not; 0 if there is none.
HandleOf(ps, terminalId) ==
    IF \E h \in DOMAIN ps : ps[h].terminalId = terminalId
    THEN CHOOSE h \in DOMAIN ps : ps[h].terminalId = terminalId
    ELSE 0

\* closeTerminal(terminalId) killing the process it once spawned for the id
\* without asking whether the terminal is still in the map.
closeTerminal_KillUnchecked(ts, ps, terminalId) ==
    IF HandleOf(ps, terminalId) # 0
    THEN [terminals |-> MapDelete(ts, terminalId),
          procs |-> Kill(ps, HandleOf(ps, terminalId))]
    ELSE [terminals |-> ts, procs |-> ps]

\* closeTerminal(terminalId) leaving the removal to the onExit closure.
closeTerminal_KillOnly(ts, ps, terminalId) ==
    IF terminalId \in DOMAIN ts
    THEN [terminals |-> ts, procs |-> Kill(ps, ts[terminalId].ptyProcess)]
    ELSE [terminals |-> ts, procs |-> ps]

\* closeTerminal(terminalId) ending with terminals.clear() instead of
\* terminals.delete(terminalId).
closeTerminal_ClearsMap(ts, ps, terminalId) ==
    IF terminalId \in DOMAIN ts
    THEN [terminals |-> <<>>,
          procs |-> Kill(ps, ts[terminalId].ptyProcess)]
    ELSE [terminals |-> ts, procs |-> ps]

\* closeTerminal(terminalId), as a function of the state it reads and writes.
closeTerminal(ts, ps, terminalId) ==
    IF terminalId \in DOMAIN ts
    THEN [terminals |-> MapDelete(ts, terminalId),
          procs |-> Kill(ps, ts[terminalId].ptyProcess)]
    ELSE [terminals |-> ts, procs |-> ps]

\* _updateTerminalBuffer(data) with slice(0, maxBufferLines): the oldest lines
\* are kept.
_updateTerminalBuffer_KeepFirst(buffer, data) ==
    LET pushed == buffer \o SplitLines(data)
    IN  IF Len(pushed) > maxBufferLines
        THEN SubSeq(pushed, 1, maxBufferLines)
        ELSE pushed

\* _updateTerminalBuffer(data) with unshift(...lines): the new lines go to the
\* front of the buffer.
_updateTerminalBuffer_Unshift(buffer, data) ==
    LET pushed == SplitLines(data) \o buffer
    IN  IF Len(pushed) > maxBufferLines
        THEN SliceLast(pushed, maxBufferLines)
        ELSE pushed

\* _updateTerminalBuffer(data), as a function of the buffer.
_updateTerminalBuffer(buffer, data) ==
    LET pushed == buffer \o SplitLines(data)
    IN  IF Len(pushed) > maxBufferLines
        THEN SliceLast(pushed, maxBufferLines)
        ELSE pushed

\* The timer part of _parseClaudeActions with the clearTimeout call left out.
Reschedule_NoClear(tm, old, owner, buffer) ==
    SetTimeout(tm, owner, \E t \in DOMAIN tm : tm[t].state = "pending", buffer)

\* The timer part of _parseClaudeActions: clear the old timeout, set a new one.
Reschedule(tm, old, owner, buffer) ==
    SetTimeout(IF old # 0 THEN ClearTimeout(tm, old) ELSE tm,
               owner, \E t \in DOMAIN tm : tm[t].state = "pending", buffer)

\* _parseClaudeActions(data) with the timeout handle kept in a local variable
\* of the call instead of the field.
_parseClaudeActions_LocalHandle(data, terminalId) ==
    IF ~view
    THEN UNCHANGED <<terminalBuffer, timers, menuDetectionTimeout, chunkLog>>
    ELSE /\ terminalBuffer' = _updateTerminalBuffer(terminalBuffer, data)
         /\ chunkLog' = Append(chunkLog, [terminalId |-> terminalId, data |-> data])
         /\ timers' = Reschedule(timers, 0, terminalId, terminalBuffer')
         /\ menuDetectionTimeout' = Len(timers')

\* _parseClaudeActions(data) with the timer set before the buffer is updated.
_parseClaudeActions_TimerFirst(data, terminalId) ==
    IF ~view
    THEN UNCHANGED <<terminalBuffer, timers, menuDetectionTimeout, chunkLog>>
    ELSE /\ timers' = Reschedule(timers, menuDetectionTimeout, terminalId,
                                 terminalBuffer)
         /\ menuDetectionTimeout' = Len(timers')
         /\ terminalBuffer' = _updateTerminalBuffer(terminalBuffer, data)
         /\ chunkLog' = Append(chunkLog, [terminalId |-> terminalId, data |-> data])

\* _parseClaudeActions(data), called from the onData closure of terminalId.
_parseClaudeActions(data, terminalId) ==
    IF ~view
    THEN UNCHANGED <<terminalBuffer, timers, menuDetectionTimeout, chunkLog>>
    ELSE /\ terminalBuffer' = _updateTerminalBuffer(terminalBuffer, data)
         /\ chunkLog' = Append(chunkLog, [terminalId |-> terminalId, data |-> data])
         /\ timers' = Reschedule(timers, menuDetectionTimeout, terminalId,
                                 terminalBuffer')
         /\ menuDetectionTimeout' = Len(timers')

\* resolveWebviewView: sets _view, registers the message handler and creates
\* the first terminal.
ResolveWebviewView(outcome) ==
    /\ view' = TRUE
    /\ createNewTerminal(TRUE, outcome)
    /\ UNCHANGED <<terminalBuffer, menuDetectionTimeout, timers, chunkLog, passes,
                   deactivated, posted, notifications, webview>>

\* case 'createTerminal'
CreateTerminal(outcome) ==
    /\ view
    /\ createNewTerminal(view, outcome)
    /\ UNCHANGED <<view, terminalBuffer, menuDetectionTimeout, timers, chunkLog,
                   passes,
                   deactivated, posted, notifications, webview>>

\* case 'terminalInput' writing to the handle once spawned for the id, whether
\* or not the terminal is still in the map.
terminalInput_StaleHandle(ts, ps, terminalId, data) ==
    IF HandleOf(ps, terminalId) # 0
    THEN Write(ps, HandleOf(ps, terminalId), data)
    ELSE ps

\* case 'terminalInput' writing to the terminal made last (the one the panel
\* shows after a creation) instead of the one the message names.
terminalInput_LastSpawned(ts, ps, terminalId, data) ==
    IF terminalId \in DOMAIN ts
    THEN Write(ps, Len(ps), data)
    ELSE ps

\* case 'terminalInput', as a function of the state it reads and writes.
terminalInput(ts, ps, terminalId, data) ==
    IF terminalId \in DOMAIN ts
    THEN Write(ps, ts[terminalId].ptyProcess, data)
    ELSE ps

TerminalInput(terminalId, data) ==
    /\ view
    /\ procs' = terminalInput(terminals, procs, terminalId, data)
    /\ UNCHANGED <<view, terminals, terminalCounter, terminalBuffer,
                   menuDetectionTimeout, timers, uiMessages, chunkLog, passes,
                   deactivated, posted, notifications, webview>>

\* case 'resizeTerminal', as a function of the state it reads and writes.
resizeTerminal(ts, ps, terminalId, size) ==
    IF terminalId \in DOMAIN ts
    THEN Resize(ps, ts[terminalId].ptyProcess, size)
    ELSE ps

\* case 'resizeTerminal' dropping the terminal it has resized from the map.
ResizeTerminal_DropsSession(terminalId, size) ==
    /\ view
    /\ procs' = resizeTerminal(terminals, procs, terminalId, size)
    /\ terminals' = MapDelete(terminals, terminalId)
    /\ UNCHANGED <<view, terminalCounter, terminalBuffer,
                   menuDetectionTimeout, timers, uiMessages, chunkLog,
                   passes, deactivated, posted, notifications, webview>>

ResizeTerminal(terminalId, size) ==
    /\ view
    /\ procs' = resizeTerminal(terminals, procs, terminalId, size)
    /\ UNCHANGED <<view, terminals, terminalCounter, terminalBuffer,
                   menuDetectionTimeout, timers, uiMessages, chunkLog, passes,
                   deactivated, posted, notifications, webview>>

\* case 'closeTerminal'
CloseTerminal(terminalId) ==
    /\ view
    /\ LET r == closeTerminal(terminals, procs, terminalId)
       IN  /\ terminals' = r.terminals
           /\ procs' = r.procs
    /\ UNCHANGED <<view, terminalCounter, terminalBuffer, menuDetectionTimeout,
                   timers, uiMessages, chunkLog, passes,
                   deactivated, posted, notifications, webview>>

\* ptyProcess.onData: the process behind handle h emits a chunk.  Output can
\* arrive until the exit event of the handle has been delivered.
OnData(h, data) ==
    /\ h \in DOMAIN procs
    /\ procs[h].status # "exited"
    /\ IF view
       THEN /\ uiMessages' = Post(uiMessages, [type |-> "terminalOutput",
                                               terminalId |-> procs[h].terminalId,
                                               data |-> data])
            /\ _parseClaudeActions(data, procs[h].terminalId)
       ELSE UNCHANGED <<uiMessages, terminalBuffer, timers,
                        menuDetectionTimeout, chunkLog>>
    /\ procs' = Emit(procs, h, data)
    /\ UNCHANGED <<view, terminals, terminalCounter, passes,
                   deactivated, posted, notifications, webview>>

\* The onExit closure posting terminalClosed only when it removed the terminal
\* itself: `if (this.terminals.delete(terminalId)) postMessage(...)`.
OnExit_PostIfDeleted(h) ==
    /\ h \in DOMAIN procs
    /\ procs[h].status # "exited"
    /\ procs' = [procs EXCEPT ![h].status = "exited"]
    /\ terminals' = MapDelete(terminals, procs[h].terminalId)
    /\ uiMessages' = IF view /\ procs[h].terminalId \in DOMAIN terminals
                     THEN Post(uiMessages, [type |-> "terminalClosed",
                                            terminalId |-> procs[h].terminalId])
                     ELSE uiMessages
    /\ UNCHANGED <<view, terminalCounter, terminalBuffer, menuDetectionTimeout,
                   timers, chunkLog, passes,
                   deactivated, posted, notifications, webview>>

\* ptyProcess.onExit: fired once per handle, after a kill or on its own.
OnExit(h) ==
    /\ h \in DOMAIN procs
    /\ procs[h].status # "exited"
    /\ procs' = [procs EXCEPT ![h].status = "exited"]
    /\ terminals' = MapDelete(terminals, procs[h].terminalId)
    /\ uiMessages' = IF view
                     THEN Post(uiMessages, [type |-> "terminalClosed",
                                            terminalId |-> procs[h].terminalId])
                     ELSE uiMessages
    /\ UNCHANGED <<view, terminalCounter, terminalBuffer, menuDetectionTimeout,
                   timers, chunkLog, passes,
                   deactivated, posted, notifications, webview>>

\* The callback with the postMessage of _detectInteractiveMenu, which the
\* source has commented out, in force: a pass that finds options posts them.
DetectInteractiveMenu_PostsActions(t) ==
    /\ t \in PendingTimers
    /\ timers' = [timers EXCEPT ![t].state = "fired"]
    /\ LET fullBuffer == Join(terminalBuffer)
           actions == _detectInteractiveMenu(fullBuffer)
       IN  /\ passes' = Append(passes,
                        [timer |-> t, fullBuffer |-> fullBuffer,
                         hasBox |-> _hasBoxStructure(fullBuffer),
                         hasInteractive |-> _hasInteractiveElements(fullBuffer),
                         actions |-> actions])
           /\ uiMessages' = IF view /\ actions # <<>>
                            THEN Post(uiMessages, [type |-> "claudeActions",
                                                   actions |-> actions])
                            ELSE uiMessages
    /\ UNCHANGED <<view, terminals, terminalCounter, terminalBuffer,
                   menuDetectionTimeout, procs, chunkLog,
                   deactivated,
                   posted, notifications, webview>>

\* The callback with an actions array that is a field of the provider and is
\* never emptied: each pass pushes what it finds to what the passes before
\* it found.
DetectInteractiveMenu_Remembering(t) ==
    /\ t \in PendingTimers
    /\ timers' = [timers EXCEPT ![t].state = "fired"]
    /\ LET fullBuffer == Join(terminalBuffer)
       IN  passes' = Append(passes,
                        [timer |-> t, fullBuffer |-> fullBuffer,
                         hasBox |-> _hasBoxStructure(fullBuffer),
                         hasInteractive |-> _hasInteractiveElements(fullBuffer),
                         actions |->
                            (IF passes = <<>> THEN <<>>
                             ELSE passes[Len(passes)].actions)
                                \o _detectInteractiveMenu(fullBuffer)])
    /\ UNCHANGED <<view, terminals, terminalCounter, terminalBuffer,
                   menuDetectionTimeout, procs, uiMessages, chunkLog,
                   deactivated,
                   posted, notifications, webview>>

\* The setTimeout callback of _parseClaudeActions: _detectInteractiveMenu()
\* reads the buffer, joins it and analyses it; it writes no field.  The pass
\* is recorded with the window it analysed and with what it logs: the
\* outcome of the two checks and the actions it found.
DetectInteractiveMenu(t) ==
    /\ t \in PendingTimers
    /\ timers' = [timers EXCEPT ![t].state = "fired"]
    /\ LET fullBuffer == Join(terminalBuffer)
       IN  passes' = Append(passes,
                        [timer |-> t, fullBuffer |-> fullBuffer,
                         hasBox |-> _hasBoxStructure(fullBuffer),
                         hasInteractive |-> _hasInteractiveElements(fullBuffer),
                         actions |-> _detectInteractiveMenu(fullBuffer)])
    /\ UNCHANGED <<view, terminals, terminalCounter, terminalBuffer,
                   menuDetectionTimeout, procs, uiMessages, chunkLog,
                   deactivated,
                   posted, notifications, webview>>

\* terminals.forEach(t => t.ptyProcess.kill())
RECURSIVE KillAll(_, _, _)
KillAll(ps, ts, ids) ==
    IF ids = {} THEN ps
    ELSE LET id == CHOOSE x \in ids : TRUE
         IN  KillAll(Kill(ps, ts[id].ptyProcess), ts, ids \ {id})

\* dispose() killing every process it ever spawned, whether or not its
\* terminal is still in the map.
Dispose_KillEverySpawned ==
    /\ IF menuDetectionTimeout # 0
       THEN /\ timers' = ClearTimeout(timers, menuDetectionTimeout)
            /\ menuDetectionTimeout' = 0
       ELSE UNCHANGED <<timers, menuDetectionTimeout>>
    /\ procs' = [h \in DOMAIN procs |-> Kill(procs, h)[h]]
    /\ terminals' = <<>>
    /\ terminalBuffer' = <<>>
    /\ chunkLog' = <<>>
    /\ UNCHANGED <<view, terminalCounter, uiMessages, passes,
                   deactivated, posted, notifications, webview>>

\* dispose()
Dispose ==
    /\ IF menuDetectionTimeout # 0
       THEN /\ timers' = ClearTimeout(timers, menuDetectionTimeout)
            /\ menuDetectionTimeout' = 0
       ELSE UNCHANGED <<timers, menuDetectionTimeout>>
    /\ procs' = KillAll(procs, terminals, DOMAIN terminals)
    /\ terminals' = <<>>
    /\ terminalBuffer' = <<>>
    /\ chunkLog' = <<>>
    /\ UNCHANGED <<view, terminalCounter, uiMessages, passes,
                   deactivated, posted, notifications, webview>>

\* deactivate(): the body is empty; the provider that activate() made is not
\* reached from it and no field is written.
Deactivate ==
    /\ ~deactivated
    /\ deactivated' = TRUE
    /\ UNCHANGED <<view, terminals, terminalCounter, terminalBuffer,
                   menuDetectionTimeout, procs, timers, uiMessages, chunkLog,
                   passes, posted, notifications, webview>>

----------------------------------------------------------------------------
(* Telegram settings *)

\* The value of a digit and of a run of digits.
DigitValue(c) == CHOOSE v \in 0..9 : DigitChars[v + 1] = c

RECURSIVE NumberOf(_)
NumberOf(digits) ==
    IF digits = <<>> THEN 0
    ELSE 10 * NumberOf(SubSeq(digits, 1, Len(digits) - 1))
            + DigitValue(digits[Len(digits)])

\* parseInt(text): white space is skipped, a sign is read, then the digits up
\* to the first other character; <<n>> for the number n, <<>> for NaN.
parseInt(text) ==
    LET t == Trim(text)
        signed == t # <<>> /\ t[1] \in {"-", "+"}
        digits == LeadingDigits(IF signed THEN Tail(t) ELSE t)
    IN  IF digits = <<>> THEN <<>>
        ELSE IF signed /\ t[1] = "-" THEN <<0 - NumberOf(digits)>>
        ELSE <<NumberOf(digits)>>

\* What is entered in botTokenInput, chatIdInput and maxRowsInput when the
\* save button is clicked.
Entry(botToken, chatId, maxRows) ==
    [botTokenInput |-> botToken, chatIdInput |-> chatId,
     maxRowsInput |-> maxRows]

SettingsEntries ==
    { Entry(<<>>, <<"c">>, <<"5", "0">>),
      Entry(<<" ">>, <<"c">>, <<"5", "0">>),
      Entry(<<"t">>, <<>>, <<"5", "0">>),
      Entry(<<"t">>, <<"c">>, <<>>),
      Entry(<<"t">>, <<"c">>, <<"0">>),
      Entry(<<"t">>, <<"c">>, <<"9">>),
      Entry(<<"t">>, <<"c">>, <<"1", "0">>),
      Entry(<<"t">>, <<"c">>, <<"2", "0", "0">>),
      Entry(<<"t">>, <<"c">>, <<"2", "0", "1">>),
      Entry(<<"t">>, <<"c">>, <<"-", "5">>) }

\* The click handler of the save button: the message it posts to the host.
saveTelegramSettingsClick(entered) ==
    LET botToken == Trim(entered.botTokenInput)
        chatId == Trim(entered.chatIdInput)
        parsed == parseInt(entered.maxRowsInput)
        \* parseInt(...) || 50
        maxRows == IF parsed = <<>> \/ parsed[1] = 0 THEN 50 ELSE parsed[1]
    IN  IF botToken = <<>>
        THEN [type |-> "showError", message |-> "Please enter a Bot Token"]
        ELSE IF chatId = <<>>
        THEN [type |-> "showError", message |-> "Please enter a Chat ID"]
        ELSE IF maxRows < 10 \/ maxRows > 200
        THEN [type |-> "showError",
              message |-> "Max Rows must be between 10 and 200"]
        ELSE [type |-> "saveTelegramSettings",
              settings |-> [botToken |-> botToken, chatId |-> chatId,
                            maxRows |-> maxRows]]

\* handleSaveTelegramSettings(settings): the information message it shows.
handleSaveTelegramSettings(settings) ==
    [kind |-> "information",
     botToken |-> SubSeq(settings.botToken, 1,
                         IF Len(settings.botToken) < 10
                         THEN Len(settings.botToken) ELSE 10),
     chatId |-> settings.chatId,
     maxRows |-> settings.maxRows]

\* The save button of the settings form is clicked.
SaveTelegramSettingsClick(entered) ==
    /\ view
    /\ posted' = Append(posted, [entered |-> entered,
                                 message |-> saveTelegramSettingsClick(entered)])
    /\ UNCHANGED <<view, terminals, terminalCounter, terminalBuffer,
                   menuDetectionTimeout, procs, timers, uiMessages, chunkLog,
                   passes, deactivated, notifications, webview>>

\* onDidReceiveMessage for the next message of the settings form: case
\* 'saveTelegramSettings' and case 'showError'.
ReceiveSettingsMessage ==
    /\ Len(notifications) < Len(posted)
    /\ LET message == posted[Len(notifications) + 1].message
       IN  notifications' =
                Append(notifications,
                       IF message.type = "saveTelegramSettings"
                       THEN handleSaveTelegramSettings(message.settings)
                       ELSE [kind |-> "error", message |-> message.message])
    /\ UNCHANGED <<view, terminals, terminalCounter, terminalBuffer,
                   menuDetectionTimeout, procs, timers, uiMessages, chunkLog,
                   passes, deactivated, posted, webview>>

----------------------------------------------------------------------------
(* The webview script *)

\* tab.className in createTerminalTab
TabClassName ==
    {"group", "relative", "flex", "items-center", "px-3", "py-2", "bg-white",
     "dark:bg-gray-700", "border", "border-gray-200", "dark:border-gray-600",
     "rounded-lg", "cursor-pointer", "transition-all", "duration-200",
     "hover:shadow-md", "hover:-translate-y-0.5", "min-w-0", "max-w-40"}

\* The classes switchTab gives to the active tab and takes from the others.
ActiveStyling ==
    {"bg-gradient-to-r", "from-blue-500", "to-indigo-600", "text-white",
     "shadow-lg", "scale-105"}

InactiveStyling == {"bg-white", "dark:bg-gray-700"}

\* The elements of a sequence that carry the class and, with a terminalId
\* other than "", that data-terminal-id: the indexes, in document order.
Selected(elements, class, terminalId) ==
    {i \in DOMAIN elements :
        /\ class = "" \/ class \in elements[i].classes
        /\ terminalId = "" \/ elements[i].terminalId = terminalId}

FirstOf(indexes) == CHOOSE i \in indexes : \A j \in indexes : i <= j

\* element.remove() for the elements at the indexes
RemoveAt(elements, indexes) ==
    LET Stays(i) == i \notin indexes
        kept == SelectSeq([i \in DOMAIN elements |-> i], Stays)
    IN  [k \in DOMAIN kept |-> elements[kept[k]]]

\* switchTab(terminalId).  The tabs come before the panes in the document,
\* so the first element with the data-terminal-id is the tab if there is one.
switchTab(w, terminalId) ==
    LET Reset(e) == [e EXCEPT !.classes = (@ \ ActiveStyling) \cup InactiveStyling]
        tabs1 == [i \in DOMAIN w.tabs |-> Reset(w.tabs[i])]
        panes1 == [i \in DOMAIN w.panes |-> Reset(w.panes[i])]
        inTabs == Selected(tabs1, "", terminalId)
        inPanes == Selected(panes1, "", terminalId)
        Activate(e) == [e EXCEPT !.classes = (@ \ InactiveStyling) \cup ActiveStyling]
        tabs2 == IF inTabs # {}
                 THEN [tabs1 EXCEPT ![FirstOf(inTabs)] = Activate(@)] ELSE tabs1
        panes2 == IF inTabs = {} /\ inPanes # {}
                  THEN [panes1 EXCEPT ![FirstOf(inPanes)] = Activate(@)]
                  ELSE panes1
        panes3 == [i \in DOMAIN panes2 |->
                        [panes2[i] EXCEPT !.classes = @ \ {"active"}]]
        activePane == Selected(panes3, "terminal-pane", terminalId)
        panes4 == IF activePane # {}
                  THEN [panes3 EXCEPT ![FirstOf(activePane)].classes =
                                            @ \cup {"active"}]
                  ELSE panes3
    IN  [w EXCEPT !.tabs = tabs2, !.panes = panes4,
                  !.activeTerminalId = terminalId]

\* createTerminalTab(terminalId, name)
createTerminalTab(w, terminalId, name) ==
    LET tab == [terminalId |-> terminalId, name |-> name,
                classes |-> TabClassName]
        terminalPane == [terminalId |-> terminalId, name |-> name,
                         classes |-> {"terminal-pane"}]
    IN  switchTab([w EXCEPT !.tabs = Append(@, tab),
                            !.panes = Append(@, terminalPane),
                            !.terminals = @ \cup {terminalId}],
                  terminalId)

\* closeTerminalTab(terminalId)
closeTerminalTab(w, terminalId) ==
    LET tab == Selected(w.tabs, "tab", terminalId)
        pane == Selected(w.panes, "terminal-pane", terminalId)
        w1 == [w EXCEPT
                !.terminals = @ \ {terminalId},
                !.tabs = IF tab # {} THEN RemoveAt(@, {FirstOf(tab)}) ELSE @,
                !.panes = IF pane # {} THEN RemoveAt(@, {FirstOf(pane)}) ELSE @]
        remainingTabs == Selected(w1.tabs, "tab", "")
    IN  IF w.activeTerminalId = terminalId
        THEN IF remainingTabs # {}
             THEN switchTab(w1, w1.tabs[FirstOf(remainingTabs)].terminalId)
             ELSE [w1 EXCEPT !.activeTerminalId = "null"]
        ELSE w1

\* window.addEventListener('message', ...): the script handles the next
\* message the provider has posted.  writeToTerminal writes to the xterm of
\* the terminal and changes nothing the script keeps.
OnMessage ==
    /\ webview.received < Len(uiMessages)
    /\ LET message == uiMessages[webview.received + 1]
           w == [webview EXCEPT !.received = @ + 1]
       IN  webview' =
                CASE message.type = "terminalCreated" ->
                        createTerminalTab(w, message.terminalId, message.name)
                  [] message.type = "terminalClosed" ->
                        closeTerminalTab(w, message.terminalId)
                  [] OTHER -> w
    /\ UNCHANGED <<view, terminals, terminalCounter, terminalBuffer,
                   menuDetectionTimeout, procs, timers, uiMessages, chunkLog,
                   passes, deactivated, posted, notifications>>

----------------------------------------------------------------------------
(* Specifications *)

\* What keeps a run inside the bounds.
MayCreate == terminalCounter < InitialCounter + MaxTerminals
MayCall(terminalId) == terminalId \in DOMAIN terminals => TotalCalls < MaxCalls

\* activate() pushes the registration of the provider to context.subscriptions,
\* which are disposed at deactivation: until then views are resolved and
\* webview messages delivered.
Registered == ~deactivated

Next ==
    \/ \E o \in SpawnOutcomes : MayCreate /\ Registered /\ ResolveWebviewView(o)
    \/ \E o \in SpawnOutcomes : MayCreate /\ Registered /\ CreateTerminal(o)
    \/ \E id \in AllIds, d \in InputData :
            MayCall(id) /\ Registered /\ TerminalInput(id, d)
    \/ \E id \in AllIds, s \in Sizes :
            MayCall(id) /\ Registered /\ ResizeTerminal(id, s)
    \/ \E id \in AllIds : Registered /\ CloseTerminal(id)
    \/ \E h \in DOMAIN procs, d \in Chunks :
            Len(timers) < MaxChunks /\ OnData(h, d)
    \/ \E h \in DOMAIN procs : OnExit(h)
    \/ \E t \in DOMAIN timers : DetectInteractiveMenu(t)
    \/ Dispose
    \/ Deactivate

\* Every handler of the provider, in any order.
Spec == Init /\ [][Next]_vars

\* A process that was sent the kill signal exits, and node-pty fires the exit
\* event of its handle.
ExitAfterKill(h) ==
    h \in DOMAIN procs /\ procs[h].status = "killed" /\ OnExit(h)

FairSpec == Spec /\ \A h \in 1..MaxTerminals : WF_vars(ExitAfterKill(h))

\* The buffer of one session: the view is resolved once, its process emits
\* chunks of every shape, the timer fires, the provider is disposed.
BufNext ==
    \/ ~view /\ ResolveWebviewView("spawned")
    \/ \E h \in DOMAIN procs, d \in BufChunks :
            Len(timers) < BufMaxChunks /\ OnData(h, d)
    \/ \E t \in DOMAIN timers : DetectInteractiveMenu(t)
    \/ Dispose

BufSpec == Init /\ [][BufNext]_vars

\* The output of several sessions: sessions are created, their processes emit
\* chunks that differ, in any interleaving, and sessions are closed, exit or
\* are disposed in between.
OutNext ==
    \/ MayCreate /\ ~view /\ ResolveWebviewView("spawned")
    \/ MayCreate /\ CreateTerminal("spawned")
    \/ \E h \in DOMAIN procs, d \in OutChunks :
            Len(timers) < OutMaxChunks /\ OnData(h, d)
    \/ \E id \in AllIds : CloseTerminal(id)
    \/ \E h \in DOMAIN procs : OnExit(h)
    \/ Dispose

OutSpec == Init /\ [][OutNext]_vars

\* The detector at work: the process of one session prints menu lines, one
\* chunk each, and the timer fires on the buffer they have made.
DetNext ==
    \/ ~view /\ ResolveWebviewView("spawned")
    \/ \E h \in DOMAIN procs, d \in DetChunks :
            Len(timers) < DetMaxChunks /\ OnData(h, d)
    \/ \E t \in DOMAIN timers : DetectInteractiveMenu(t)
    \/ Dispose

DetSpec == Init /\ [][DetNext]_vars

\* The option rows: the process of one session prints rows of several kinds
\* and the timer fires on the buffer they have made.
RowNext ==
    \/ ~view /\ ResolveWebviewView("spawned")
    \/ \E h \in DOMAIN procs, d \in RowChunks :
            Len(timers) < RowMaxChunks /\ OnData(h, d)
    \/ \E t \in DOMAIN timers : DetectInteractiveMenu(t)
    \/ Dispose

RowSpec == Init /\ [][RowNext]_vars

\* The settings form next to the sessions: sessions are created, used and
\* closed, their processes print and exit, the timer fires, and the save
\* button is clicked with every kind of entry.
SetNext ==
    \/ MayCreate /\ ~view /\ ResolveWebviewView("spawned")
    \/ MayCreate /\ CreateTerminal("spawned")
    \/ \E id \in AllIds : MayCall(id) /\ TerminalInput(id, "y")
    \/ \E id \in AllIds : MayCall(id) /\ ResizeTerminal(id, <<120, 40>>)
    \/ \E id \in AllIds : CloseTerminal(id)
    \/ \E h \in DOMAIN procs, d \in Chunks :
            Len(timers) < SetMaxChunks /\ OnData(h, d)
    \/ \E h \in DOMAIN procs : OnExit(h)
    \/ \E t \in DOMAIN timers : DetectInteractiveMenu(t)
    \/ Dispose
    \/ \E e \in SettingsEntries :
            Len(posted) < MaxSaves /\ SaveTelegramSettingsClick(e)
    \/ ReceiveSettingsMessage

SetSpec == Init /\ [][SetNext]_vars

\* The two checks: the process of one session prints lines with numbers,
\* phrases and box characters, and the timer fires on the buffer they have
\* made.
GateNext ==
    \/ ~view /\ ResolveWebviewView("spawned")
    \/ \E h \in DOMAIN procs, d \in GateChunks :
            Len(timers) < GateMaxChunks /\ OnData(h, d)
    \/ \E t \in DOMAIN timers : DetectInteractiveMenu(t)
    \/ Dispose

GateSpec == Init /\ [][GateNext]_vars

\* The tabs of the panel: sessions are created, closed and exit, their
\* processes print, and the webview script handles the messages the provider
\* posts, in the order they were posted.
TabNext ==
    \/ MayCreate /\ ~view /\ ResolveWebviewView("spawned")
    \/ MayCreate /\ CreateTerminal("spawned")
    \/ \E id \in AllIds : CloseTerminal(id)
    \/ \E h \in DOMAIN procs, d \in Chunks :
            Len(timers) < TabMaxChunks /\ OnData(h, d)
    \/ \E h \in DOMAIN procs : OnExit(h)
    \/ OnMessage

TabSpec == Init /\ [][TabNext]_vars

----------------------------------------------------------------------------
(* Reading the histories *)

IsCreated(m) == m.type = "terminalCreated"
IsOutput(m) == m.type = "terminalOutput"
IsClosed(m) == m.type = "terminalClosed"

\* The terminalCreated messages, in creation order.
Created == SelectSeq(uiMessages, IsCreated)

\* The integer written in a name or an id after its prefix; -1 if there is none.
Numbers == 0..(InitialCounter + MaxTerminals + 1)
NumberAfter(prefix, str) ==
    IF \E n \in Numbers : str = prefix \o Decimal(n)
    THEN CHOOSE n \in Numbers : str = prefix \o Decimal(n)
    ELSE -1

----------------------------------------------------------------------------
(* C1 *)

\* C1: the sessions created so far have pairwise distinct ids, the integers
\* in their names strictly increase in creation order, and the counter is
\* above every integer used so far, whatever was closed or has exited in
\* between: the next creation cannot reuse an id or a name.
C1_IdsNeverReused ==
    \A j \in DOMAIN Created :
        /\ NumberAfter("CC:", Created[j].name) >= InitialCounter
        /\ NumberAfter("CC:", Created[j].name) < terminalCounter
        /\ NumberAfter("terminal-", Created[j].terminalId) < terminalCounter
        /\ \A i \in 1..(j - 1) :
                /\ Created[i].terminalId # Created[j].terminalId
                /\ NumberAfter("CC:", Created[i].name)
                        < NumberAfter("CC:", Created[j].name)

\* Two sessions were created, and the first was gone before the second came.
C1_Witness ==
    /\ Len(Created) = 2
    /\ procs[1].status = "exited"
    /\ procs[2].status = "killed"
    /\ terminals = <<>>

----------------------------------------------------------------------------
(* C2 *)

\* The buffer session t would hold if it had a buffer of its own: its chunks,
\* appended in order by _updateTerminalBuffer.
RECURSIVE PrivateBuffer(_, _)
PrivateBuffer(t, log) ==
    IF Len(log) = 0 THEN <<>>
    ELSE LET before == PrivateBuffer(t, SubSeq(log, 1, Len(log) - 1))
             c == log[Len(log)]
         IN  IF c.terminalId = t
             THEN _updateTerminalBuffer(before, c.data)
             ELSE before

\* C2: the buffer a session's output is appended to, and that the detection
\* pass scheduled by it will analyse, holds lines of that session only: after
\* a chunk of session t the buffer is what t's chunks alone produce, no line
\* of another session added to it.
C2_BufferPrivate ==
    chunkLog # <<>> =>
        terminalBuffer = PrivateBuffer(chunkLog[Len(chunkLog)].terminalId, chunkLog)

----------------------------------------------------------------------------
(* C3 *)

\* Every line of the chunks in log, in arrival order.
RECURSIVE AllLines(_)
AllLines(log) ==
    IF Len(log) = 0 THEN <<>>
    ELSE AllLines(SubSeq(log, 1, Len(log) - 1)) \o SplitLines(log[Len(log)].data)

\* C3: after every append the buffer holds at most maxBufferLines lines, and
\* they are the most recent lines of all the output appended since the buffer
\* was last emptied, in arrival order.
C3_BufferBounded ==
    /\ Len(terminalBuffer) <= maxBufferLines
    /\ terminalBuffer = SliceLast(AllLines(chunkLog), maxBufferLines)

\* A chunk of more than maxBufferLines lines was appended, later chunks pushed
\* some of its lines out, and the buffer is full.
C3_Witness ==
    /\ Len(chunkLog) = 3
    /\ chunkLog[1].data = BigChunk
    /\ chunkLog[2].data # BigChunk
    /\ chunkLog[3].data # BigChunk
    /\ Len(terminalBuffer) = maxBufferLines
    /\ Len(AllLines(chunkLog)) > maxBufferLines + 2

----------------------------------------------------------------------------
(* C4 *)

\* C4: a step that takes a session out of the collection (a close request or
\* the exit of its process) cancels the detection task that session's output
\* scheduled and releases the lines that session produced: after the step no
\* timer of that session is pending and the buffer holds no chunk of it.
C4_ClosureCancelsDetection ==
    [][\A id \in (DOMAIN terminals) \ (DOMAIN terminals') :
          /\ \A t \in DOMAIN timers' :
                timers'[t].owner = id => timers'[t].state # "pending"
          /\ \A i \in DOMAIN chunkLog' : chunkLog'[i].terminalId # id]_vars

----------------------------------------------------------------------------
(* C5 *)

\* The terminalClosed messages posted for terminalId.
ClosedCount(terminalId) ==
    Cardinality({i \in DOMAIN uiMessages :
                    /\ IsClosed(uiMessages[i])
                    /\ uiMessages[i].terminalId = terminalId})

\* A session has ended: its id has left the collection, by either path.
Ended(h) == procs[h].terminalId \notin DOMAIN terminals

\* The outcome both ways of ending share, in a state: an ended session's
\* process was killed or has exited, terminalClosed was posted for it once if
\* its exit event was handled and not yet otherwise, and an exited or killed
\* process has no session left in the collection.
C5_Teardown ==
    \A h \in DOMAIN procs :
        /\ Ended(h) <=> procs[h].status \in {"killed", "exited"}
        /\ procs[h].status = "killed" => procs[h].kills = 1
        /\ ClosedCount(procs[h].terminalId) =
                (IF procs[h].status = "exited" THEN 1 ELSE 0)

\* C5: whichever way a session ends, by a close request or by the exit of
\* its process, it is out of the collection with its process killed or
\* exited, terminalClosed is never posted twice for its id, and it is posted
\* once in the end.
C5_ClosedExactlyOnce ==
    /\ []C5_Teardown
    /\ \A id \in AllIds :
            (\E h \in DOMAIN procs : procs[h].terminalId = id /\ Ended(h))
                ~> (ClosedCount(id) = 1)

\* One session ended by a close request and one by the exit of its process,
\* and terminalClosed was posted for both.
C5_Witness ==
    /\ Len(procs) = 2
    /\ procs[1].status = "exited" /\ procs[1].kills = 1
    /\ procs[2].status = "exited" /\ procs[2].kills = 0
    /\ ClosedCount(procs[1].terminalId) = 1
    /\ ClosedCount(procs[2].terminalId) = 1

----------------------------------------------------------------------------
(* C6 *)

\* C6: for an id that is not in the collection (closed, exited or never
\* created) a terminalInput and a resizeTerminal command reach no process
\* handle: no call is made and no size changes.  The two handlers write no
\* other field.
C6_UnknownIdIgnored ==
    \A id \in AllIds \ DOMAIN terminals :
        /\ \A d \in InputData : terminalInput(terminals, procs, id, d) = procs
        /\ \A sz \in Sizes : resizeTerminal(terminals, procs, id, sz) = procs

\* One session was closed and its process has not exited yet, one has exited,
\* and the view takes commands for either id.
C6_Witness ==
    /\ view
    /\ Len(procs) = 2
    /\ procs[1].status = "killed" /\ procs[1].terminalId \notin DOMAIN terminals
    /\ procs[2].status = "exited" /\ procs[2].terminalId \notin DOMAIN terminals

----------------------------------------------------------------------------
(* C7 *)

\* C7: closeTerminal(id) twice is closeTerminal(id) once, for every id: the
\* second call changes neither the collection nor any handle (no second
\* kill), and a call for an id that is not in the collection changes
\* nothing.  closeTerminal posts no message, so the messages are the same.
C7_CloseIdempotent ==
    \A id \in AllIds :
        LET once == closeTerminal(terminals, procs, id)
            twice == closeTerminal(once.terminals, once.procs, id)
        IN  /\ twice = once
            /\ id \notin DOMAIN terminals =>
                    once = [terminals |-> terminals, procs |-> procs]

\* terminal-1 was closed and its process is still running down, terminal-2
\* is open: a close of either one is a first or a second call.
C7_Witness ==
    /\ Len(procs) = 2
    /\ procs[1].status = "killed" /\ procs[1].kills = 1
    /\ procs[1].terminalId \notin DOMAIN terminals
    /\ procs[2].status = "running"
    /\ procs[2].terminalId \in DOMAIN terminals

----------------------------------------------------------------------------
(* C8 *)

\* C8: a closeTerminal step for an id in the collection ends with the id out
\* of the collection and one more kill made on that session's handle, the
\* exit event of the handle still to come; no other session leaves.
C8_CloseRemovesAtOnce ==
    [][\A id \in DOMAIN terminals :
          CloseTerminal(id) =>
              LET h == terminals[id].ptyProcess
              IN  /\ id \notin DOMAIN terminals'
                  /\ procs'[h].kills = procs[h].kills + 1
                  /\ procs'[h].status = "killed"
                  /\ DOMAIN terminals' = (DOMAIN terminals) \ {id}]_vars

\* A session was closed by request: it is out of the collection, its process
\* was killed once and the exit event has not been delivered.
C8_Witness ==
    \E h \in DOMAIN procs :
        /\ procs[h].status = "killed"
        /\ procs[h].kills = 1
        /\ procs[h].terminalId \notin DOMAIN terminals
        /\ ClosedCount(procs[h].terminalId) = 0
        /\ terminals # <<>>

----------------------------------------------------------------------------
(* C9 *)

\* C9: a chunk that arrives while the timer of the chunk before it is still
\* pending replaces that timer, which never fires: of a burst of chunks only
\* the timer of the last chunk can fire, so the burst has at most one pass.
\* A pass analyses the buffer as it stood after the chunk that set its timer,
\* and no timer fires twice.
C9_OnePassPerBurst ==
    /\ \A t \in DOMAIN timers :
            (t > 1 /\ timers[t].within) => timers[t - 1].state = "cleared"
    /\ \A i \in DOMAIN passes :
            /\ timers[passes[i].timer].state = "fired"
            /\ passes[i].fullBuffer = Join(timers[passes[i].timer].buffer)
            /\ \A j \in DOMAIN passes : passes[j].timer = passes[i].timer => j = i

\* Two chunks came within one quiet interval and one pass has run, over the
\* buffer that holds both.
C9_Witness ==
    /\ Len(timers) = 2
    /\ timers[2].within
    /\ timers[1].state = "cleared"
    /\ timers[2].state = "fired"
    /\ Len(passes) = 1
    /\ passes[1].fullBuffer = Join(AllLines(chunkLog))
    /\ Len(chunkLog) = 2

----------------------------------------------------------------------------
(* C10 *)

\* C10: at most one detection timer is pending, so at most one per session,
\* and it is the one the field menuDetectionTimeout holds: the step that sets
\* a new timer has cleared the one before.
C10_OneTimerPending ==
    /\ Cardinality(PendingTimers) <= 1
    /\ \A t \in PendingTimers : t = menuDetectionTimeout
    /\ \A id \in AllIds :
            Cardinality({t \in PendingTimers : timers[t].owner = id}) <= 1

\* A second chunk has replaced the pending timer of the first.
C10_Witness ==
    /\ Len(timers) = 2
    /\ timers[1].state = "cleared"
    /\ timers[2].state = "pending"
    /\ timers[1].owner = timers[2].owner

----------------------------------------------------------------------------
(* C11 *)

\* C11: the detection timer a chunk of a session has set stays pending until
\* it fires, unless that session emits again (it was not quiet) or leaves the
\* collection: output of another session does not take it away, so the pass
\* over the buffer that holds the chunk runs when the session's quiet
\* interval ends, whatever the other sessions do in the meantime.
C11_QuietSessionAnalysed ==
    [][\A t \in DOMAIN timers :
          (timers[t].state = "pending" /\ timers'[t].state # "pending") =>
              \/ timers'[t].state = "fired"
              \/ /\ Len(timers') > Len(timers)
                 /\ timers'[Len(timers')].owner = timers[t].owner
              \/ timers[t].owner \notin DOMAIN terminals']_vars

----------------------------------------------------------------------------
(* C12 *)

\* C12: a dispose step, from any state, kills every process whose exit has
\* not been handled and that was not killed before, once; it calls kill on no
\* handle that has exited or was already killed; it leaves the collection and
\* the buffer empty and no detection timer pending.
C12_DisposeAll ==
    [][Dispose =>
          /\ terminals' = <<>>
          /\ terminalBuffer' = <<>>
          /\ menuDetectionTimeout' = 0
          /\ \A t \in DOMAIN timers' : timers'[t].state # "pending"
          /\ DOMAIN procs' = DOMAIN procs
          /\ \A h \in DOMAIN procs :
                IF procs[h].status = "running"
                THEN /\ procs'[h].status = "killed"
                     /\ procs'[h].kills = procs[h].kills + 1
                ELSE procs'[h] = procs[h]]_vars

\* dispose() has run with one process exited on its own, one process live and
\* a detection timer pending: the timer is cleared without a later chunk, the
\* exited handle has no kill, the live one was killed.
C12_Witness ==
    /\ Len(procs) = 2
    /\ procs[1].status = "exited" /\ procs[1].kills = 0
    /\ procs[2].status = "killed" /\ procs[2].kills = 1
    /\ Len(timers) = 1 /\ timers[1].state = "cleared"
    /\ terminals = <<>> /\ terminalBuffer = <<>>
    /\ menuDetectionTimeout = 0

----------------------------------------------------------------------------
(* C13 *)

\* C13: kill has been invoked on every process that is alive while its
\* session is over: a process whose session has left the collection (by a
\* close request or by dispose) was killed or has exited, and once the
\* extension is deactivated no spawned process is still running without a
\* kill.
C13_ReleasedOnEveryPath ==
    \A h \in DOMAIN procs :
        (deactivated \/ Ended(h)) =>
            (procs[h].status = "running" => procs[h].kills > 0)

----------------------------------------------------------------------------
(* C14 *)

\* The ids allocated so far.
Allocated == {TerminalId(n) : n \in InitialCounter..(terminalCounter - 1)}

\* C14: an allocated id for which the spawn failed (no process handle was
\* made for it) looks to the UI like a session whose process has exited:
\* terminalClosed was posted for the id, once, and the collection holds no
\* session for it.
C14_SpawnFailureLooksLikeExit ==
    \A id \in Allocated :
        HandleOf(procs, id) = 0 =>
            /\ ClosedCount(id) = 1
            /\ id \notin DOMAIN terminals

----------------------------------------------------------------------------
(* C15 *)

\* C15: for an id in the collection, terminalInput makes one write call with
\* the message's data, and resizeTerminal one resize call with the message's
\* cols and rows, on the one process that was spawned for that id; every
\* other handle is left as it was.
C15_ForwardedToOwnHandle ==
    \A id \in DOMAIN terminals :
        LET own == {h \in DOMAIN procs : procs[h].terminalId = id}
        IN  /\ Cardinality(own) = 1
            /\ \A h \in own :
                /\ \A d \in InputData :
                      terminalInput(terminals, procs, id, d) =
                          [procs EXCEPT ![h].calls =
                                Append(@, [op |-> "write", arg |-> d])]
                /\ \A sz \in Sizes :
                      resizeTerminal(terminals, procs, id, sz) =
                          [procs EXCEPT ![h].calls =
                                Append(@, [op |-> "resize", arg |-> sz]),
                                        ![h].size = sz]

\* Two sessions are open and an input for the first one has been forwarded:
\* its handle has the write, the handle of the other has no call.
C15_Witness ==
    /\ Cardinality(DOMAIN terminals) = 2
    /\ procs[1].calls = <<[op |-> "write", arg |-> "y"]>>
    /\ procs[2].calls = <<>>
    /\ procs[1].status = "running" /\ procs[2].status = "running"

----------------------------------------------------------------------------
(* C16 *)

\* The chunks of the terminalOutput messages posted for terminalId, in order.
RECURSIVE Forwarded(_, _)
Forwarded(msgs, terminalId) ==
    IF Len(msgs) = 0 THEN <<>>
    ELSE LET m == msgs[Len(msgs)]
             before == Forwarded(SubSeq(msgs, 1, Len(msgs) - 1), terminalId)
         IN  IF IsOutput(m) /\ m.terminalId = terminalId
             THEN Append(before, m.data)
             ELSE before

\* The chunks of terminalId appended to the buffer since its last reset.
RECURSIVE Appended(_, _)
Appended(log, terminalId) ==
    IF Len(log) = 0 THEN <<>>
    ELSE LET c == log[Len(log)]
             before == Appended(SubSeq(log, 1, Len(log) - 1), terminalId)
         IN  IF c.terminalId = terminalId THEN Append(before, c.data)
             ELSE before

IsSuffix(s, t) == Len(s) <= Len(t) /\ s = SubSeq(t, Len(t) - Len(s) + 1, Len(t))

\* C16: for every session, the chunks posted to the UI as terminalOutput are
\* the chunks its process emitted, each once and in the order of emission;
\* the chunks of the session appended to the buffer since the buffer was last
\* emptied are the last chunks it emitted, in that order; and the lines in the
\* buffer are in the order of the appends.
C16_OutputInOrder ==
    /\ \A h \in DOMAIN procs :
          /\ Forwarded(uiMessages, procs[h].terminalId) = procs[h].emitted
          /\ IsSuffix(Appended(chunkLog, procs[h].terminalId), procs[h].emitted)
    /\ IsSuffix(terminalBuffer, AllLines(chunkLog))

\* Two sessions have emitted in turn: the first one chunk, then the second
\* one, then the first a different one.
C16_Witness ==
    /\ Len(procs) = 2
    /\ procs[1].emitted = << <<"a">>, <<"b", LF>> >>
    /\ procs[2].emitted = << <<"a">> >>
    /\ Len(chunkLog) = 3
    /\ chunkLog[2].terminalId = procs[2].terminalId

----------------------------------------------------------------------------
(* C17 *)

\* The character stream the chunks of log make up.
RECURSIVE Stream(_)
Stream(log) ==
    IF Len(log) = 0 THEN <<>>
    ELSE Stream(SubSeq(log, 1, Len(log) - 1)) \o log[Len(log)].data

\* C17: the buffer does not depend on where the stream was cut into chunks:
\* once output has been appended it holds the lines of the whole stream
\* appended since it was last emptied, the lines the stream gives when it
\* arrives as one chunk.
C17_ChunkingIrrelevant ==
    chunkLog # <<>> =>
        terminalBuffer = _updateTerminalBuffer(<<>>, Stream(chunkLog))

----------------------------------------------------------------------------
(* C18 *)

\* C18: an id whose session has been removed from the collection (a process
\* was spawned for it and it is not in the collection: it was closed, has
\* exited or was disposed) is not in the collection after any step: no
\* operation registers a session under it again.
C18_NeverReopened ==
    [][\A id \in AllIds :
          (HandleOf(procs, id) # 0 /\ id \notin DOMAIN terminals) =>
              id \notin DOMAIN terminals']_vars

\* terminal-1 was closed and has exited, and a session was created after
\* that: it is terminal-2, which is open, and terminal-1 is still out.
C18_Witness ==
    /\ Len(uiMessages) = 3
    /\ IsCreated(uiMessages[1]) /\ uiMessages[1].terminalId = TerminalId(1)
    /\ IsClosed(uiMessages[2]) /\ uiMessages[2].terminalId = TerminalId(1)
    /\ IsCreated(uiMessages[3])
    /\ procs[1].kills = 1
    /\ DOMAIN terminals = {uiMessages[3].terminalId}

----------------------------------------------------------------------------
(* C19 *)

\* C19: every session in the collection is registered under its own id and
\* holds the handle of the process that was spawned for that id, whose exit
\* has not been handled; no two sessions hold the same handle.
C19_OneHandlePerSession ==
    /\ \A id \in DOMAIN terminals :
          /\ terminals[id].id = id
          /\ terminals[id].ptyProcess \in DOMAIN procs
          /\ procs[terminals[id].ptyProcess].terminalId = id
          /\ procs[terminals[id].ptyProcess].status = "running"
    /\ \A id1 \in DOMAIN terminals, id2 \in DOMAIN terminals :
          terminals[id1].ptyProcess = terminals[id2].ptyProcess => id1 = id2

\* Two sessions are open side by side, after output and a resize.
C19_Witness ==
    /\ Cardinality(DOMAIN terminals) = 2
    /\ Len(procs) = 2
    /\ procs[2].size = <<120, 40>>
    /\ Len(procs[1].emitted) = 1

----------------------------------------------------------------------------
(* C20 *)

\* The box-drawing-family characters in text.
BoxCount(text) == Cardinality({i \in DOMAIN text : text[i] \in BoxChars})

\* text holds a complete frame of one style: an opening corner, a run of
\* edge characters, the closing corner of the top border and, somewhere after
\* it, the closing corner of the bottom border.
FramedBy(text, open, edges, close, last) ==
    \E i \in DOMAIN text :
        /\ text[i] = open
        /\ \E j \in (i + 1)..Len(text) :
              /\ text[j] = close
              /\ \A e \in (i + 1)..(j - 1) : text[e] \in edges
              /\ \E k \in (j + 1)..Len(text) : text[k] = last

Framed(text) ==
    \/ FramedBy(text, BoxDR, {BoxH, BoxDH}, BoxDL, BoxUL)
    \/ FramedBy(text, DblDR, {DblH, DblDH}, DblDL, DblUL)
    \/ FramedBy(text, "+", {"-", "+"}, "+", "+")

\* C20: a detection pass yields options only if the window passes both the
\* structural and the semantic check: if either fails the pass yields
\* none.  So a window with fewer than 4 box-drawing characters and no
\* complete frame yields none, numbered list or not, and a window without
\* any box character yields none, interactive phrase or not.  (Passes are
\* only ever added, so what holds of the last one holds of each.)
C20_BothChecks ==
    passes # <<>> =>
        LET pass == passes[Len(passes)]
            window == pass.fullBuffer
            shown == StripAnsi(window)
        IN  /\ (~_hasBoxStructure(window) \/ ~_hasInteractiveElements(window))
                    => pass.actions = <<>>
            /\ (BoxCount(shown) < 4 /\ ~Framed(shown)) => pass.actions = <<>>
            /\ BoxCount(shown) = 0 => pass.actions = <<>>

\* Two passes that yielded nothing though their windows hold option rows: one
\* over a numbered list with a single box character, which fails the
\* structural check only, and one over a framed menu whose rows start with
\* the border, which fails the semantic check only.
C20_Witness ==
    /\ Len(passes) = 2
    /\ passes[1].actions = <<>> /\ passes[2].actions = <<>>
    /\ _parseMenuOptions(passes[1].fullBuffer) # <<>>
    /\ _parseMenuOptions(passes[2].fullBuffer) # <<>>
    /\ _hasInteractiveElements(passes[1].fullBuffer)
    /\ BoxCount(StripAnsi(passes[1].fullBuffer)) = 1
    /\ Framed(StripAnsi(passes[2].fullBuffer))
    /\ ~_hasInteractiveElements(passes[2].fullBuffer)

----------------------------------------------------------------------------
(* C21 *)

\* A line made of box-drawing characters only: a border of a frame.
BorderLine(line) ==
    Len(line) > 0 /\ \A i \in DOMAIN line : line[i] \in BoxChars \cup {BoxDH, DblDH, "-"}

\* A numbered option row as a reader sees it: border or cursor decoration,
\* the digits, a dot, space, the text of the option, and the border again.
RowPattern ==
    <<Bol, Star(Chr({BoxV, Arrow} \cup WhiteSpace)), Grp(1, Plus(Chr(Digits))),
      Chr({"."}), Plus(Chr(WhiteSpace)), Grp(2, Lazy(Dot, 1)),
      Star(Chr({BoxV} \cup WhiteSpace)), Eol>>

\* The option a reader takes from the rows, as <<[key, label]>>.
RowOption(line) ==
    LET found == Match(RowPattern, line, FALSE)
    IN  IF found = <<>> THEN <<>>
        ELSE <<[key |-> found[1].caps[1], label |-> found[1].caps[2]]>>

\* window is a framed menu: a complete frame whose first and last lines are
\* its borders, with numbered option rows, and nothing else, in between.
FramedMenu(window) ==
    LET lines == Split(window, LF)
    IN  /\ Len(lines) >= 3
        /\ Framed(window)
        /\ BorderLine(lines[1]) /\ BorderLine(lines[Len(lines)])
        /\ \A i \in 2..(Len(lines) - 1) : RowOption(lines[i]) # <<>>

\* The rows of a framed menu, in window order.
FramedRows(window) ==
    LET lines == Split(window, LF)
    IN  [i \in 1..(Len(lines) - 2) |-> RowOption(lines[i + 1])[1]]

\* The key and the label of each of the options.
KeysAndLabels(actions) ==
    [i \in DOMAIN actions |->
        [key |-> actions[i].key, label |-> actions[i].label]]

\* C21: a detection pass over a window that is a framed menu, its numbered
\* rows bare or decorated with the border and the selection cursor, yields
\* exactly one option per row, in window order, with the digits of the row as
\* key and the text after the number as label.
C21_OptionPerFramedRow ==
    passes # <<>> =>
        LET pass == passes[Len(passes)]
        IN  FramedMenu(pass.fullBuffer) =>
                KeysAndLabels(pass.actions) = FramedRows(pass.fullBuffer)

----------------------------------------------------------------------------
(* C22 *)

\* text ends in a question mark.
EndsInQuestion(text) == Len(text) > 0 /\ text[Len(text)] = "?"

\* C22: no option comes from a line that ends in a question mark, whatever
\* decoration the line carries around its text.  The label of an option is
\* the end of the text of its line, so no option of a pass has a label that
\* ends in a question mark.
C22_NoQuestionEmitted ==
    passes # <<>> =>
        LET pass == passes[Len(passes)]
        IN  \A i \in DOMAIN pass.actions :
                ~EndsInQuestion(pass.actions[i].label)

----------------------------------------------------------------------------
(* C23 *)

\* The lines _parseMenuOptions keeps: the non-empty trimmed lines of the
\* window that do not end in a question mark and look like a menu row.
KeptLines(window) ==
    LET split == Split(StripAnsi(window), LF)
        trimmed == [i \in DOMAIN split |-> Trim(split[i])]
        Kept(line) ==
            /\ Len(line) > 0
            /\ ~EndsInQuestion(line)
            /\ hasMenuNumber(line) \/ hasLetterOption(line)
    IN  SelectSeq(trimmed, Kept)

\* The text of a line: the line without box and cursor characters, trimmed.
TextOf(line) ==
    LET IsText(c) == c \notin {BoxV, ArcDR, ArcDL, ArcUL, ArcUR, BoxH, Arrow}
    IN  Trim(SelectSeq(line, IsText))

\* The option of a text read as a numbered row, then as a lettered row: the
\* digits, a dot and a remainder, or a letter in parentheses and a remainder.
OptionOfText(text) ==
    LET digits == LeadingDigits(text)
        n == Len(digits)
        afterDot == Trim(SubSeq(text, n + 2, Len(text)))
        afterLetter == Trim(SubSeq(text, 4, Len(text)))
    IN  IF n > 0 /\ Len(text) > n /\ text[n + 1] = "." /\ Len(afterDot) > 0
        THEN <<[key |-> digits, label |-> afterDot]>>
        ELSE IF /\ Len(text) > 3
                /\ text[1] = "(" /\ text[2] \in Letters /\ text[3] = ")"
                /\ Len(afterLetter) > 0
        THEN <<[key |-> <<ToLowerCase(text[2])>>, label |-> afterLetter]>>
        ELSE <<>>

\* The options of the kept lines of a window, in window order.
OptionsOfKept(window) ==
    LET kept == KeptLines(window)
    IN  Flatten([i \in DOMAIN kept |-> OptionOfText(TextOf(kept[i]))])

\* C23: the options of a pass whose window passed both checks are those of
\* its kept lines, in order, each line read as a numbered row first (key: its
\* digits) and as a parenthesized-letter row second (key: the letter in lower
\* case, label: the remaining text); a kept line that is neither gives no
\* option.
C23_NumberedThenLettered ==
    passes # <<>> =>
        LET pass == passes[Len(passes)]
        IN  (pass.hasBox /\ pass.hasInteractive) =>
                KeysAndLabels(pass.actions) = OptionsOfKept(pass.fullBuffer)

\* A pass over two lettered rows, (A) and (b), a kept line that is no row and
\* two numbered rows: four options, the first with key a.
C23_Witness ==
    /\ Len(passes) = 1
    /\ Len(KeptLines(passes[1].fullBuffer)) = 5
    /\ KeysAndLabels(passes[1].actions) =
            << [key |-> <<"a">>, label |-> <<"K", "e", "e", "p">>],
               [key |-> <<"b">>, label |-> <<"D", "r", "o", "p">>],
               [key |-> <<"1">>, label |-> <<"Y", "e", "s">>],
               [key |-> <<"2">>, label |-> <<"N", "o">>] >>

----------------------------------------------------------------------------
(* C24 *)

----------------------------------------------------------------------------
(* C25 *)

\* The options the kept lines of a window can give.
ReadableOptions(window) ==
    LET kept == KeptLines(window)
    IN  {OptionOfText(TextOf(kept[i]))[1] :
            i \in {j \in DOMAIN kept : OptionOfText(TextOf(kept[j])) # <<>>}}

\* C25: every timer that has fired has its pass, which ran to its end
\* whatever the window: it has the outcome of both checks and a list of
\* options.  A pass finds at most one option per kept line, each the option
\* of a kept line that reads as a row (a line that does not is dropped,
\* leaving the list shorter or empty), and it leaves the view, the sessions,
\* the counter, the buffer, the timer field, the processes and the messages
\* to the UI as they were.
C25_TotalAndContained ==
    [][/\ \A t \in DOMAIN timers' :
            timers'[t].state = "fired" =>
                \E i \in DOMAIN passes' : passes'[i].timer = t
       /\ passes' # passes =>
            LET pass == passes'[Len(passes')]
                options == KeysAndLabels(pass.actions)
            IN  /\ pass.hasBox \in BOOLEAN /\ pass.hasInteractive \in BOOLEAN
                /\ DOMAIN pass.actions = 1..Len(pass.actions)
                /\ Len(pass.actions) <= Len(KeptLines(pass.fullBuffer))
                /\ \A i \in DOMAIN options :
                        options[i] \in ReadableOptions(pass.fullBuffer)
                /\ UNCHANGED <<view, terminals, terminalCounter,
                               terminalBuffer, menuDetectionTimeout, procs,
                               uiMessages>>]_vars

\* Two passes: one over a window of empty lines, which finds nothing, and one
\* over a window that passes both checks and has a kept line that is no row,
\* which finds fewer options than there are kept lines.
C25_Witness ==
    /\ Len(passes) = 2
    /\ Trim(passes[1].fullBuffer) = <<>> /\ passes[1].actions = <<>>
    /\ passes[2].hasBox /\ passes[2].hasInteractive
    /\ passes[2].actions # <<>>
    /\ Len(passes[2].actions) < Len(KeptLines(passes[2].fullBuffer))

----------------------------------------------------------------------------
(* C26 *)

\* What was entered is outside the accepted settings: no bot token, no chat
\* id, or a row count below 10 or above 200.
OutsideSettings(entered) ==
    LET rows == parseInt(entered.maxRowsInput)
    IN  \/ Trim(entered.botTokenInput) = <<>>
        \/ Trim(entered.chatIdInput) = <<>>
        \/ rows # <<>> /\ (rows[1] < 10 \/ rows[1] > 200)

\* C26: when the save button is clicked, saveTelegramSettings is posted only
\* with a bot token, a chat id and a row count from 10 to 200, and whatever
\* was entered outside that is answered with the validation message
\* instead; neither the click nor the handling of its message by the host
\* changes the sessions, the counter, the buffer or the timer.
C26_SettingsValidated ==
    [][(posted' # posted \/ notifications' # notifications) =>
            /\ UNCHANGED <<terminals, terminalCounter, terminalBuffer,
                           menuDetectionTimeout>>
            /\ \A i \in DOMAIN posted' :
                  LET entered == posted'[i].entered
                      message == posted'[i].message
                  IN  /\ message.type \in {"saveTelegramSettings", "showError"}
                      /\ message.type = "saveTelegramSettings" =>
                            /\ message.settings.botToken # <<>>
                            /\ message.settings.chatId # <<>>
                            /\ message.settings.maxRows \in 10..200
                      /\ OutsideSettings(entered) =>
                            message.type = "showError"]_vars

----------------------------------------------------------------------------
(* C27 *)

\* A step of the lifecycle of sessions: a creation (on resolving the view or
\* on request), a close, the handling of an exit, the disposal.
LifecycleStep ==
    \/ \E o \in SpawnOutcomes : ResolveWebviewView(o) \/ CreateTerminal(o)
    \/ \E id \in AllIds : CloseTerminal(id)
    \/ \E h \in DOMAIN procs : OnExit(h)
    \/ Dispose

\* A step of any other handler: input, resize, output, a detection pass, the
\* settings form and its messages.
OtherStep ==
    \/ \E id \in AllIds, d \in InputData : TerminalInput(id, d)
    \/ \E id \in AllIds, s \in Sizes : ResizeTerminal(id, s)
    \/ \E h \in DOMAIN procs, d \in Chunks : OnData(h, d)
    \/ \E t \in DOMAIN timers : DetectInteractiveMenu(t)
    \/ \E e \in SettingsEntries : SaveTelegramSettingsClick(e)
    \/ ReceiveSettingsMessage

\* C27: the collection of sessions and the id counter change in lifecycle
\* steps only: terminalInput, resizeTerminal, an output chunk, a detection
\* pass and the settings messages leave both as they were.
C27_OnlyLifecycleChanges ==
    [][/\ (terminals' # terminals \/ terminalCounter' # terminalCounter)
            => LifecycleStep
       /\ OtherStep => UNCHANGED <<terminals, terminalCounter>>]_vars

\* One session is open after an output chunk, its detection pass, a resize
\* and a handled settings message; terminal-1 is still the collection and
\* the counter is still 2.
C27_Witness ==
    /\ DOMAIN terminals = {TerminalId(1)}
    /\ terminalCounter = InitialCounter + 1
    /\ Len(passes) = 1
    /\ Len(notifications) = 1
    /\ procs[1].size = <<120, 40>>
    /\ \E i \in DOMAIN uiMessages : IsOutput(uiMessages[i])

----------------------------------------------------------------------------
(* C28 *)

\* C28: the step that handles an output chunk posts one terminalOutput
\* message with the id of the session and the chunk as it came, appends the
\* lines of the chunk to the buffer, and leaves exactly one pending timer, a
\* new one, set when the buffer already held those lines; and a pass analyses
\* the buffer its timer was set on, so it sees the lines of the chunk that
\* scheduled it.
C28_PostAppendSchedule ==
    [][/\ \A h \in DOMAIN procs, d \in BufChunks :
            OnData(h, d) =>
                /\ uiMessages' =
                        Append(uiMessages, [type |-> "terminalOutput",
                                            terminalId |-> procs[h].terminalId,
                                            data |-> d])
                /\ IsSuffix(SliceLast(SplitLines(d), maxBufferLines),
                            terminalBuffer')
                /\ Len(timers') = Len(timers) + 1
                /\ {t \in DOMAIN timers' : timers'[t].state = "pending"}
                        = {Len(timers')}
                /\ menuDetectionTimeout' = Len(timers')
                /\ timers'[Len(timers')].buffer = terminalBuffer'
       /\ passes' # passes =>
            LET pass == passes'[Len(passes')]
            IN  /\ pass.fullBuffer = Join(terminalBuffer)
                /\ pass.fullBuffer = Join(timers[pass.timer].buffer)]_vars

\* Two chunks have been handled, the second of two lines, and the pass of its
\* timer has analysed the buffer that ends with them.
C28_Witness ==
    /\ Len(chunkLog) = 2
    /\ chunkLog[2].data = <<"a", CR, LF, "b">>
    /\ Len(passes) = 1
    /\ passes[1].timer = 2
    /\ IsSuffix(<<"a", LF, "b">>, passes[1].fullBuffer)
    /\ uiMessages[Len(uiMessages)].data = chunkLog[2].data

\* C29 -- The semantic check holds for a window exactly when at least two of
\* its lines are numbered-list lines (digits, a dot, whitespace, at least three
\* more characters), or it contains one of the fixed phrases, or one of its
\* lines is a numbered yes/no option; so a window with one numbered line that
\* is no yes/no line and with no phrase does not pass.
\* The lines and the words are read here one line at a time, without the
\* patterns of the check.
LeadingIn(text, set) ==
    LET others == {i \in DOMAIN text : text[i] \notin set}
        n == IF others = {} THEN Len(text)
             ELSE (CHOOSE i \in others : \A j \in others : i <= j) - 1
    IN  SubSeq(text, 1, n)

AfterLeading(text, set) ==
    SubSeq(text, Len(LeadingIn(text, set)) + 1, Len(text))

\* What follows "<digits>." on a line, in a tuple; the empty tuple for a line
\* that does not start that way.
AfterNumber(line) ==
    LET t == AfterLeading(line, WhiteSpace)
        n == Len(LeadingIn(t, Digits))
    IN  IF n > 0 /\ Len(t) > n /\ t[n + 1] = "."
        THEN <<SubSeq(t, n + 2, Len(t))>> ELSE <<>>

NumberedListLine(line) ==
    /\ AfterNumber(line) # <<>>
    /\ LET r == AfterNumber(line)[1]
       IN  \E k \in 1..(Len(r) - 3) :
                /\ \A i \in 1..k : r[i] \in WhiteSpace
                /\ \A i \in (k + 1)..(k + 3) : r[i] \notin {CR, LF}

YesNoLine(line) ==
    /\ AfterNumber(line) # <<>>
    /\ LET r == AfterNumber(line)[1]
           word == LeadingIn(AfterLeading(r, WhiteSpace), Letters)
       IN  /\ Len(r) > 0 /\ r[1] \in WhiteSpace
           /\ [i \in DOMAIN word |-> ToLowerCase(word[i])]
                    \in {<<"y", "e", "s">>, <<"n", "o">>}

HasPhrase(shown) ==
    \E i \in 1..4 : Test(claudePrompts[i], shown, FALSE)

SemanticReading(window) ==
    LET shown == StripAnsi(window)
        lines == Split(shown, LF)
    IN  \/ Cardinality({i \in DOMAIN lines : NumberedListLine(lines[i])}) >= 2
        \/ HasPhrase(shown)
        \/ \E i \in DOMAIN lines : YesNoLine(lines[i])

C29_SemanticCheck ==
    \A p \in DOMAIN passes :
        passes[p].hasInteractive <=> SemanticReading(passes[p].fullBuffer)

\* C30 -- The structural check holds for a window exactly when it contains a
\* complete frame (an opening corner, a run of edges, a closing corner and,
\* anywhere later, the last corner; single-line, double-line or ASCII) or at
\* least four box characters; so a window with at most three of them and no
\* frame does not pass.  The box characters are the fourteen of the check's
\* character class: six single-line, six double-line, "+" and "|".
C30_StructuralCheck ==
    \A p \in DOMAIN passes :
        LET shown == StripAnsi(passes[p].fullBuffer)
        IN  /\ passes[p].hasBox <=> (Framed(shown) \/ BoxCount(shown) >= 4)
            /\ (BoxCount(shown) <= 3 /\ ~Framed(shown))
                    => ~passes[p].hasBox

\* Three passes of one session: two bars without a frame do not pass, four
\* bars without a frame pass, and so does the window once a double-line frame
\* has been printed under them.
C30_Witness ==
    /\ Len(passes) = 3
    /\ LET shown(p) == StripAnsi(passes[p].fullBuffer)
       IN  /\ BoxCount(shown(1)) = 2 /\ ~Framed(shown(1))
           /\ ~passes[1].hasBox
           /\ BoxCount(shown(2)) = 4 /\ ~Framed(shown(2))
           /\ passes[2].hasBox
           /\ FramedBy(shown(3), DblDR, {DblH, DblDH}, DblDL, DblUL)
           /\ passes[3].hasBox

----------------------------------------------------------------------------
(* C31 *)

\* A step has left every session but terminalId as it was: the other
\* handles, with their kills, and the other entries of the collection.
OthersUntouched(terminalId) ==
    /\ DOMAIN procs' = DOMAIN procs
    /\ \A h \in DOMAIN procs :
            IF procs[h].terminalId = terminalId
            THEN procs'[h].kills <= procs[h].kills + 1
            ELSE procs'[h] = procs[h]
    /\ DOMAIN terminals' = (DOMAIN terminals) \ {terminalId}
    /\ \A other \in DOMAIN terminals' : terminals'[other] = terminals[other]

\* Another session than terminalId has been closed or has exited.
OtherTornDown(terminalId) ==
    \E h \in DOMAIN procs :
        /\ procs[h].terminalId # terminalId
        /\ procs[h].status \in {"killed", "exited"}

\* C31: closing a session and the exit of its process kill at most that
\* session's handle and remove only its id: every other session keeps its
\* entry and its handle, un-killed; and an open session, after another one
\* was torn down, still has its input written to its own handle and its
\* output posted under its own id.
C31_TeardownIsLocal ==
    [][/\ \A id \in AllIds : CloseTerminal(id) => OthersUntouched(id)
       /\ \A h \in DOMAIN procs : OnExit(h) => OthersUntouched(procs[h].terminalId)
       /\ \A id \in DOMAIN terminals, d \in InputData :
            (OtherTornDown(id) /\ TerminalInput(id, d)) =>
                LET h == terminals[id].ptyProcess
                IN  /\ procs[h].terminalId = id
                    /\ procs'[h].calls =
                            Append(procs[h].calls, [op |-> "write", arg |-> d])
       /\ \A h \in DOMAIN procs, d \in Chunks :
            (/\ procs[h].terminalId \in DOMAIN terminals
             /\ OtherTornDown(procs[h].terminalId)
             /\ view /\ OnData(h, d)) =>
                uiMessages' = Append(uiMessages,
                                     [type |-> "terminalOutput",
                                      terminalId |-> procs[h].terminalId,
                                      data |-> d])]_vars

\* The first session was closed and its exit handled; the second is still in
\* the collection, its process was not killed, and after terminalClosed of
\* the first it got an input and its output was posted.
C31_Witness ==
    /\ Len(procs) = 2
    /\ procs[1].kills = 1 /\ procs[1].status = "exited"
    /\ procs[2].terminalId \in DOMAIN terminals
    /\ procs[2].kills = 0 /\ procs[2].status = "running"
    /\ Len(procs[2].calls) = 1 /\ procs[2].calls[1].op = "write"
    /\ \E i \in DOMAIN uiMessages, j \in DOMAIN uiMessages :
            /\ i < j
            /\ IsClosed(uiMessages[i])
            /\ uiMessages[i].terminalId = procs[1].terminalId
            /\ IsOutput(uiMessages[j])
            /\ uiMessages[j].terminalId = procs[2].terminalId

----------------------------------------------------------------------------
(* C32 *)

\* C32: whatever closeTerminal, dispose and exit events come, kill is called
\* at most once on a handle, and never on a handle whose exit event has been
\* handled: a step that calls kill on a handle finds it running, never
\* killed and not exited.
C32_KillOnceAndNotAfterExit ==
    [][\A h \in DOMAIN procs :
            procs'[h].kills # procs[h].kills =>
                /\ procs[h].status = "running"
                /\ procs[h].kills = 0
                /\ procs'[h].kills = 1]_vars

\* Both sessions are over and the collection is empty: the first was killed
\* and its exit has been handled, the second was killed and its exit is still
\* to come; each handle has one kill.
C32_Witness ==
    /\ Len(procs) = 2
    /\ procs[1].status = "exited" /\ procs[1].kills = 1
    /\ procs[2].status = "killed" /\ procs[2].kills = 1
    /\ terminals = <<>>
    /\ ClosedCount(procs[1].terminalId) = 1
    /\ ClosedCount(procs[2].terminalId) = 0

----------------------------------------------------------------------------
(* C33 *)

\* Every terminalOutput and terminalClosed message comes after the
\* terminalCreated message of its id.
CreatedFirst ==
    \A j \in DOMAIN uiMessages :
        (IsOutput(uiMessages[j]) \/ IsClosed(uiMessages[j])) =>
            \E i \in 1..(j - 1) :
                /\ IsCreated(uiMessages[i])
                /\ uiMessages[i].terminalId = uiMessages[j].terminalId

\* C33: for every session id terminalCreated is posted before any
\* terminalOutput or terminalClosed with that id, and the session is in the
\* collection by the time terminalCreated is posted: the step that posts it
\* is the one that registers the id, under a handle of its own.
C33_CreatedBeforeOthers ==
    /\ []CreatedFirst
    /\ [][\A id \in AllIds :
            (/\ Len(uiMessages') > Len(uiMessages)
             /\ IsCreated(uiMessages'[Len(uiMessages')])
             /\ uiMessages'[Len(uiMessages')].terminalId = id) =>
                /\ id \notin DOMAIN terminals
                /\ id \in DOMAIN terminals'
                /\ procs'[terminals'[id].ptyProcess].terminalId = id
                /\ procs'[terminals'[id].ptyProcess].emitted = <<>>]_vars

\* Two sessions were created; the first has emitted output and has exited:
\* its three messages are in the order created, output, closed.
C33_Witness ==
    /\ Len(Created) = 2
    /\ \E i \in DOMAIN uiMessages, j \in DOMAIN uiMessages,
          k \in DOMAIN uiMessages :
            /\ i < j /\ j < k
            /\ IsCreated(uiMessages[i]) /\ IsOutput(uiMessages[j])
            /\ IsClosed(uiMessages[k])
            /\ uiMessages[i].terminalId = TerminalId(InitialCounter)
            /\ uiMessages[j].terminalId = TerminalId(InitialCounter)
            /\ uiMessages[k].terminalId = TerminalId(InitialCounter)

----------------------------------------------------------------------------
(* C34 *)

\* C34: once closeTerminal(id) has returned, so that the id is out of the
\* collection, no step posts a terminalOutput message with that id, appends
\* output of that session's process to the buffer or sets the detection
\* timer for it.
C34_SilentAfterClose ==
    [][\A h \in DOMAIN procs :
            procs[h].terminalId \notin DOMAIN terminals =>
                /\ Len(uiMessages') > Len(uiMessages) =>
                        ~ /\ IsOutput(uiMessages'[Len(uiMessages')])
                          /\ uiMessages'[Len(uiMessages')].terminalId
                                = procs[h].terminalId
                /\ Len(chunkLog') > Len(chunkLog) =>
                        chunkLog'[Len(chunkLog')].terminalId
                            # procs[h].terminalId
                /\ Len(timers') > Len(timers) =>
                        timers'[Len(timers')].owner # procs[h].terminalId]_vars

----------------------------------------------------------------------------
(* C35 *)

SessionMessageTypes == {"terminalCreated", "terminalOutput", "terminalClosed"}

\* C35: a detection pass, whatever it finds, posts no message to the UI,
\* calls nothing on a process and leaves the collection, the counter and the
\* buffer as they were; and every message the provider has posted about
\* sessions is a terminalCreated, terminalOutput or terminalClosed message.
C35_PassIsSilent ==
    /\ [](\A i \in DOMAIN uiMessages : uiMessages[i].type \in SessionMessageTypes)
    /\ [][passes' # passes =>
            /\ uiMessages' = uiMessages
            /\ procs' = procs
            /\ terminals' = terminals
            /\ terminalCounter' = terminalCounter
            /\ terminalBuffer' = terminalBuffer]_vars

\* Two passes have run, one that found no option and one that found some;
\* the messages posted are terminalCreated and one terminalOutput per chunk,
\* and the process has been sent nothing.
C35_Witness ==
    /\ Len(passes) = 2
    /\ passes[1].actions = <<>>
    /\ passes[2].actions # <<>>
    /\ Len(chunkLog) = 2
    /\ Len(uiMessages) = 3
    /\ IsCreated(uiMessages[1])
    /\ IsOutput(uiMessages[2]) /\ IsOutput(uiMessages[3])
    /\ procs[1].calls = <<>> /\ procs[1].kills = 0

----------------------------------------------------------------------------
(* C36 *)

\* The provider as dispose() leaves it: no session, an empty buffer, no
\* detection timer pending, and every process it has spawned killed or
\* exited.
Quiescent ==
    /\ terminals = <<>>
    /\ terminalBuffer = <<>>
    /\ PendingTimers = {}
    /\ \A h \in DOMAIN procs : procs[h].status \in {"killed", "exited"}

\* C36: dispose() leaves the provider quiescent, and it stays so until a
\* session is created: no step other than a creation, in particular no late
\* chunk and no exit event of a killed process, refills the buffer, sets the
\* detection timer or puts a session into the collection.
C36_QuietAfterDispose ==
    [][/\ Dispose => Quiescent'
       /\ (Quiescent /\ terminalCounter' = terminalCounter) => Quiescent']_vars

----------------------------------------------------------------------------
(* C37 *)

\* The ids whose terminalClosed message the webview script has handled.
ClosedInWebview ==
    {uiMessages[i].terminalId :
        i \in {j \in 1..webview.received : IsClosed(uiMessages[j])}}

\* C37: after the terminalCreated and terminalClosed messages the webview
\* script has handled, a closed terminal is out of the script's map and has
\* no tab and no pane left in the document; activeTerminalId is null or the
\* id of a terminal in the map; and it is null only when the map is empty,
\* so that closing the active terminal while another remains makes a
\* remaining one active.
C37_TabsFollowSessions ==
    /\ \A id \in ClosedInWebview :
            /\ id \notin webview.terminals
            /\ Selected(webview.tabs, "", id) = {}
            /\ Selected(webview.panes, "", id) = {}
    /\ webview.activeTerminalId = "null"
            \/ webview.activeTerminalId \in webview.terminals
    /\ webview.activeTerminalId = "null" => webview.terminals = {}

====
